---- MODULE Spec2Model ----
(***************************************************************************)
(* Read-only multi-database SQL access layer of agno-dash.                 *)
(*                                                                         *)
(* Modelled: db/config.py (registry discovery), dash/tools/sql.py          *)
(* (list_tables, describe_table, run_sql_query, _resolve, _reject_writes), *)
(* dash/tools/introspect.py (introspect_schema, _resolve) and the module   *)
(* level construction in dash/agent.py.                                    *)
(*                                                                         *)
(* Python strings are sequences of one-character strings, so that          *)
(* str.lower, str.strip and str.split are computed character by character. *)
(***************************************************************************)
EXTENDS Integers, Sequences, FiniteSets, TLC

(***************************************************************************)
(* Bounds                                                                  *)
(***************************************************************************)
\* a query text is the concatenation of at most MaxPieces lexical pieces
MaxPieces == 3
\* os.environ holds at most MaxEnv of the candidate settings
MaxEnv == 2
\* number of concurrent tool callers of the orchestrator
NumCallers == 2
\* os.environ of the registry discovery holds at most MaxRegEnv settings
MaxRegEnv == 3
\* a statement given to the advisory check is the concatenation of at most
\* MaxSqlPieces lexical pieces
MaxSqlPieces == 3
\* the catalog of a backend reports at most MaxSchemas schemas
MaxSchemas == 2
\* a text cell of a sample row has at most MaxTextLen characters
MaxTextLen == 31

Callers == 1 .. NumCallers

(***************************************************************************)
(* Characters and Python str operations                                    *)
(***************************************************************************)
\* the characters used, in code point order
Chars ==
    << "\t", "\n", " ", "'", "(", ")", "*", "-", "/", "1", ";",
       "A", "B", "C", "D", "E", "F", "G", "H", "I", "J", "K", "L", "M",
       "N", "O", "P", "Q", "R", "S", "T", "U", "V", "W", "X", "Y", "Z",
       "_",
       "a", "b", "c", "d", "e", "f", "g", "h", "i", "j", "k", "l", "m",
       "n", "o", "p", "q", "r", "s", "t", "u", "v", "w", "x", "y", "z" >>

\* the code point rank of each character
OrdOf == [c \in {Chars[i] : i \in 1 .. Len(Chars)} |-> CHOOSE i \in 1 .. Len(Chars) : Chars[i] = c]

Ord(c) == OrdOf[c]

IsUpper(c) == Ord(c) >= Ord("A") /\ Ord(c) <= Ord("Z")

\* str.isspace for one character
IsSpace(c) == c \in {" ", "\t", "\n"}

\* str.lower for each character
LowerOf ==
    [c \in {Chars[i] : i \in 1 .. Len(Chars)} |->
        IF IsUpper(c) THEN Chars[Ord(c) - Ord("A") + Ord("a")] ELSE c]

LowerChar(c) == LowerOf[c]

\* str.lower()
Lower(s) == [i \in 1 .. Len(s) |-> LowerChar(s[i])]

RECURSIVE LStrip(_)
\* str.lstrip()
LStrip(s) == IF s # << >> /\ IsSpace(Head(s)) THEN LStrip(Tail(s)) ELSE s

RECURSIVE RStrip(_)
\* str.rstrip()
RStrip(s) ==
    IF s # << >> /\ IsSpace(s[Len(s)]) THEN RStrip(SubSeq(s, 1, Len(s) - 1)) ELSE s

\* str.strip()
Strip(s) == RStrip(LStrip(s))

RECURSIVE TakeToken(_)
\* the longest prefix of s without whitespace
TakeToken(s) ==
    IF s = << >> \/ IsSpace(Head(s)) THEN << >> ELSE << Head(s) >> \o TakeToken(Tail(s))

RECURSIVE Split(_)
\* str.split() with no separator: the maximal runs of non-whitespace
Split(s) ==
    LET t == LStrip(s)
        tok == TakeToken(t)
    IN  IF t = << >> THEN << >>
        ELSE << tok >> \o Split(SubSeq(t, Len(tok) + 1, Len(t)))

StartsWith(s, p) == Len(s) >= Len(p) /\ SubSeq(s, 1, Len(p)) = p

EndsWith(s, p) == Len(s) >= Len(p) /\ SubSeq(s, Len(s) - Len(p) + 1, Len(s)) = p

RECURSIVE StrLess(_, _)
\* Python's < on str: lexicographic by code point
StrLess(a, b) ==
    IF b = << >> THEN FALSE
    ELSE IF a = << >> THEN TRUE
    ELSE IF Head(a) # Head(b) THEN Ord(Head(a)) < Ord(Head(b))
    ELSE StrLess(Tail(a), Tail(b))

\* a list of strings is in sorted() order
IsSorted(l) == \A i \in 1 .. Len(l) - 1 : ~StrLess(l[i + 1], l[i])

\* the elements of a list
Elems(l) == {l[i] : i \in 1 .. Len(l)}

RECURSIVE Concat(_)
\* "".join(list)
Concat(l) == IF l = << >> THEN << >> ELSE Head(l) \o Concat(Tail(l))

(***************************************************************************)
(* Strict execution gate: dash/tools/sql.py                                *)
(***************************************************************************)
WRITE_KEYWORDS ==
    { << "i", "n", "s", "e", "r", "t" >>,
      << "u", "p", "d", "a", "t", "e" >>,
      << "d", "e", "l", "e", "t", "e" >>,
      << "d", "r", "o", "p" >>,
      << "a", "l", "t", "e", "r" >>,
      << "c", "r", "e", "a", "t", "e" >>,
      << "t", "r", "u", "n", "c", "a", "t", "e" >>,
      << "g", "r", "a", "n", "t" >>,
      << "r", "e", "v", "o", "k", "e" >> }

\* the gate without the lower-casing of the first token
FirstTokenIsWriteCaseSensitive(sql) ==
    LET tokens == Split(Strip(sql))
        first_token == IF tokens # << >> THEN tokens[1] ELSE << >>
    IN  first_token \in WRITE_KEYWORDS

\* _reject_writes raises for sql: its first whitespace-delimited token,
\* lower-cased, is a write keyword
FirstTokenIsWrite(sql) ==
    LET tokens == Split(Strip(sql))
        first_token == IF tokens # << >> THEN Lower(tokens[1]) ELSE << >>
    IN  first_token \in WRITE_KEYWORDS

(***************************************************************************)
(* Advisory scan: skills/sql-fixer/scripts/check_query_safety.py           *)
(***************************************************************************)
\* the alternatives of DESTRUCTIVE_PATTERN
DESTRUCTIVE_KEYWORDS ==
    { << "i", "n", "s", "e", "r", "t" >>,
      << "u", "p", "d", "a", "t", "e" >>,
      << "d", "e", "l", "e", "t", "e" >>,
      << "d", "r", "o", "p" >>,
      << "a", "l", "t", "e", "r" >>,
      << "t", "r", "u", "n", "c", "a", "t", "e" >>,
      << "c", "r", "e", "a", "t", "e" >>,
      << "g", "r", "a", "n", "t" >>,
      << "r", "e", "v", "o", "k", "e" >> }

\* the regular expression class \w
IsWordChar(c) ==
    \/ Ord(c) >= Ord("A") /\ Ord(c) <= Ord("Z")
    \/ Ord(c) >= Ord("a") /\ Ord(c) <= Ord("z")
    \/ c \in {"1", "_"}

\* \bword\b matching in s at position i without re.IGNORECASE
WholeWordAtCaseSensitive(s, word, i) ==
    /\ i + Len(word) - 1 <= Len(s)
    /\ SubSeq(s, i, i + Len(word) - 1) = word
    /\ (i = 1 \/ ~IsWordChar(s[i - 1]))
    /\ (i + Len(word) - 1 = Len(s) \/ ~IsWordChar(s[i + Len(word)]))

\* \bword\b matches in s at position i, ignoring case
WholeWordAt(s, word, i) ==
    /\ i + Len(word) - 1 <= Len(s)
    /\ Lower(SubSeq(s, i, i + Len(word) - 1)) = word
    /\ (i = 1 \/ ~IsWordChar(s[i - 1]))
    /\ (i + Len(word) - 1 = Len(s) \/ ~IsWordChar(s[i + Len(word)]))

\* the matches of DESTRUCTIVE_PATTERN without the word boundaries
DestructiveHitsSubstring(s) ==
    {w \in DESTRUCTIVE_KEYWORDS :
        \E i \in 1 .. Len(s) :
            i + Len(w) - 1 <= Len(s) /\ Lower(SubSeq(s, i, i + Len(w) - 1)) = w}

\* the lower-cased matches of DESTRUCTIVE_PATTERN in s
DestructiveHits(s) ==
    {w \in DESTRUCTIVE_KEYWORDS : \E i \in 1 .. Len(s) : WholeWordAt(s, w, i)}

\* the regular expression class \d (the digits of Chars)
IsDigit(c) == c \in {"1"}

RECURSIVE CollapseSpaces(_)
\* re.sub(r"\s+", " ", sql): every maximal run of whitespace becomes one space
CollapseSpaces(s) ==
    IF s = << >> THEN << >>
    ELSE IF IsSpace(Head(s))
         THEN << " " >> \o CollapseSpaces(LStrip(s))
         ELSE << Head(s) >> \o CollapseSpaces(Tail(s))

\* _clean_sql
CleanSql(s) == Strip(CollapseSpaces(s))

RECURSIVE RStripSemicolons(_)
\* str.rstrip(";"): every trailing ';' is removed
RStripSemicolons(s) ==
    IF s # << >> /\ s[Len(s)] = ";" THEN RStripSemicolons(SubSeq(s, 1, Len(s) - 1)) ELSE s

SELECT_WORD == << "s", "e", "l", "e", "c", "t" >>

LIMIT_WORD == << "l", "i", "m", "i", "t" >>

\* SELECT_PATTERN.search(s): ^\s*select\b, ignoring case
SelectPatternMatches(s) ==
    LET t == LStrip(s)
    IN  /\ Len(t) >= Len(SELECT_WORD)
        /\ Lower(SubSeq(t, 1, Len(SELECT_WORD))) = SELECT_WORD
        /\ (Len(t) = Len(SELECT_WORD) \/ ~IsWordChar(t[Len(SELECT_WORD) + 1]))

\* LIMIT_PATTERN with the keyword alone: \blimit\b
LimitKeywordMatches(s) == \E i \in 1 .. Len(s) : WholeWordAt(s, LIMIT_WORD, i)

\* LIMIT_PATTERN.search(s): \blimit\s+\d+\b, ignoring case; the keyword at
\* i, whitespace up to a, digits up to b, a word boundary after b
LimitPatternMatches(s) ==
    \E i \in 1 .. Len(s) :
        /\ i + Len(LIMIT_WORD) - 1 <= Len(s)
        /\ Lower(SubSeq(s, i, i + Len(LIMIT_WORD) - 1)) = LIMIT_WORD
        /\ (i = 1 \/ ~IsWordChar(s[i - 1]))
        /\ \E a \in i + Len(LIMIT_WORD) .. Len(s), b \in i + Len(LIMIT_WORD) + 1 .. Len(s) :
              /\ a < b
              /\ \A k \in i + Len(LIMIT_WORD) .. a : IsSpace(s[k])
              /\ \A k \in a + 1 .. b : IsDigit(s[k])
              /\ (b = Len(s) \/ ~IsWordChar(s[b + 1]))

\* SELECT_STAR_PATTERN.search(s): \bselect\s+\*, ignoring case
SelectStarPatternMatches(s) ==
    \E i \in 1 .. Len(s) :
        /\ i + Len(SELECT_WORD) - 1 <= Len(s)
        /\ Lower(SubSeq(s, i, i + Len(SELECT_WORD) - 1)) = SELECT_WORD
        /\ (i = 1 \/ ~IsWordChar(s[i - 1]))
        /\ \E a \in i + Len(SELECT_WORD) .. Len(s) - 1 :
              /\ \A k \in i + Len(SELECT_WORD) .. a : IsSpace(s[k])
              /\ s[a + 1] = "*"

\* the test for several statements without the rstrip: any ';' counts
HasSemicolon(cleaned) == ";" \in Elems(cleaned)

\* ";" in cleaned.rstrip(";")
SemicolonBeforeTrailing(cleaned) == ";" \in Elems(RStripSemicolons(cleaned))

RECURSIVE SortedList(_)
\* sorted(set of str)
SortedList(S) ==
    IF S = {} THEN << >>
    ELSE LET m == CHOOSE x \in S : \A y \in S : x = y \/ StrLess(x, y)
         IN  << m >> \o SortedList(S \ {m})

RECURSIVE Join(_, _)
\* sep.join(list)
Join(sep, l) ==
    IF l = << >> THEN << >>
    ELSE IF Len(l) = 1 THEN l[1]
         ELSE l[1] \o sep \o Join(sep, Tail(l))

\* "SQL is empty."
EMPTY_ERROR ==
    << "S", "Q", "L", " ", "i", "s", " ", "e", "m", "p", "t", "y", "." >>

\* "Destructive or write operations detected: "
DESTRUCTIVE_ERROR_HEAD ==
    << "D", "e", "s", "t", "r", "u", "c", "t", "i", "v", "e", " ", "o", "r", " ", "w", "r",
       "i", "t", "e", " ", "o", "p", "e", "r", "a", "t", "i", "o", "n", "s", " ", "d", "e",
       "t", "e", "c", "t", "e", "d", ":", " " >>

MULTIPLE_WARNING == "Multiple SQL statements detected; prefer a single statement."

LIMIT_WARNING == "Missing LIMIT clause. Add LIMIT 50 by default."

SELECT_STAR_WARNING == "Avoid SELECT *; specify explicit columns."

\* check_query_safety(sql): the verdict {ok, errors, warnings}
check_query_safety(text) ==
    LET cleaned == CleanSql(text)
        destructive_hits == SortedList(DestructiveHits(cleaned))
        errors == IF destructive_hits # << >>
                  THEN << DESTRUCTIVE_ERROR_HEAD \o Join(<< ",", " " >>, destructive_hits)
                          \o << "." >> >>
                  ELSE << >>
        multiple == IF SemicolonBeforeTrailing(cleaned) THEN << MULTIPLE_WARNING >> ELSE << >>
        limit == IF SelectPatternMatches(cleaned) /\ ~LimitPatternMatches(cleaned)
                 THEN << LIMIT_WARNING >> ELSE << >>
        star == IF SelectPatternMatches(cleaned) /\ SelectStarPatternMatches(cleaned)
                THEN << SELECT_STAR_WARNING >> ELSE << >>
    IN  IF cleaned = << >>
        THEN [ok |-> FALSE, errors |-> << EMPTY_ERROR >>, warnings |-> << >>]
        ELSE [ok |-> Len(errors) = 0, errors |-> errors,
              warnings |-> multiple \o limit \o star]

(***************************************************************************)
(* Registry discovery: db/config.py                                        *)
(***************************************************************************)
ANALYTICS_PREFIX == << "A", "N", "A", "L", "Y", "T", "I", "C", "S", "_", "D", "B", "_" >>

ANALYTICS_DESC_SUFFIX == << "_", "D", "E", "S", "C" >>

IMPLICIT_DEFAULT_NAME == << "d", "e", "f", "a", "u", "l", "t" >>

\* db.url.db_url, the URL of the internal database
internal_db_url == "url_internal"

\* _normalize_name without the strip
NormalizeNameLowerOnly(name) == Lower(name)

\* _normalize_name
NormalizeName(name) == Lower(Strip(name))

RECURSIVE IterEntriesKeepingDescriptions(_)
\* _iter_explicit_analytics_entries without the skip of *_DESC keys
IterEntriesKeepingDescriptions(env) ==
    IF env = << >> THEN << >>
    ELSE LET key == Head(env).key
             value == Head(env).value
             raw_name == SubSeq(key, Len(ANALYTICS_PREFIX) + 1, Len(key))
             name == NormalizeName(raw_name)
             rest == IterEntriesKeepingDescriptions(Tail(env))
         IN  IF ~StartsWith(key, ANALYTICS_PREFIX) \/ value = "" THEN rest
             ELSE IF name = << >> THEN rest
             ELSE << [name |-> name, url |-> value] >> \o rest

RECURSIVE IterExplicitAnalyticsEntries(_)
\* _iter_explicit_analytics_entries over os.environ (a list of key/value
\* items in iteration order): the (name, url) pairs, in order
IterExplicitAnalyticsEntries(env) ==
    IF env = << >> THEN << >>
    ELSE LET key == Head(env).key
             value == Head(env).value
             raw_name == SubSeq(key, Len(ANALYTICS_PREFIX) + 1, Len(key))
             name == NormalizeName(raw_name)
             rest == IterExplicitAnalyticsEntries(Tail(env))
         IN  IF ~StartsWith(key, ANALYTICS_PREFIX) \/ value = "" THEN rest
             ELSE IF EndsWith(key, ANALYTICS_DESC_SUFFIX) THEN rest
             ELSE IF name = << >> THEN rest
             ELSE << [name |-> name, url |-> value] >> \o rest

\* the keys of a dict held as a list of items, in insertion order
Keys(d) == [i \in 1 .. Len(d) |-> d[i].name]

RECURSIVE DictOf(_)
\* dict(pairs): a key keeps the position of its first occurrence and the
\* value of its last
DictOf(pairs) ==
    IF pairs = << >> THEN << >>
    ELSE LET init == DictOf(SubSeq(pairs, 1, Len(pairs) - 1))
             last == pairs[Len(pairs)]
         IN  IF last.name \in Elems(Keys(init))
             THEN [i \in 1 .. Len(init) |->
                      IF init[i].name = last.name THEN last ELSE init[i]]
             ELSE Append(init, last)

\* get_analytics_registry adding the implicit entry to the explicit ones
GetAnalyticsRegistryWithDefault(env) ==
    Append(DictOf(IterExplicitAnalyticsEntries(env)),
           [name |-> IMPLICIT_DEFAULT_NAME, url |-> internal_db_url])

\* get_analytics_registry
GetAnalyticsRegistry(env) ==
    LET registry == DictOf(IterExplicitAnalyticsEntries(env))
    IN  IF registry # << >> THEN registry
        ELSE << [name |-> IMPLICIT_DEFAULT_NAME, url |-> internal_db_url] >>

RECURSIVE DescriptionEntries(_)
\* the loop of get_analytics_descriptions over os.environ: the
\* (name, description) pairs, in order
DescriptionEntries(env) ==
    IF env = << >> THEN << >>
    ELSE LET key == Head(env).key
             value == Head(env).value
             raw_name == SubSeq(key, Len(ANALYTICS_PREFIX) + 1,
                                Len(key) - Len(ANALYTICS_DESC_SUFFIX))
             name == NormalizeName(raw_name)
             rest == DescriptionEntries(Tail(env))
         IN  IF \/ ~StartsWith(key, ANALYTICS_PREFIX)
                \/ ~EndsWith(key, ANALYTICS_DESC_SUFFIX)
                \/ value = ""
             THEN rest
             ELSE IF name = << >> THEN rest
             ELSE << [name |-> name, desc |-> value] >> \o rest

\* get_analytics_descriptions
GetAnalyticsDescriptions(env) == DictOf(DescriptionEntries(env))

(***************************************************************************)
(* Inputs                                                                  *)
(***************************************************************************)
\* the candidate settings of the registry discovery
RegistrySettings ==
    { [key |-> ANALYTICS_PREFIX \o << "M", "A", "I", "N" >>, value |-> "url_main"],
      [key |-> ANALYTICS_PREFIX \o << "S", "A", "L", "E", "S" >>, value |-> "url_sales"],
      [key |-> ANALYTICS_PREFIX \o << " ", "M", "a", "i", "n" >>, value |-> "url_main2"],
      [key |-> ANALYTICS_PREFIX \o << " " >>, value |-> "url_blank"],
      [key |-> ANALYTICS_PREFIX \o << "O", "P", "S" >>, value |-> ""],
      [key |-> ANALYTICS_PREFIX \o << "S", "A", "L", "E", "S", "_", "D", "E", "S", "C" >>, value |-> "sales data"],
      [key |-> ANALYTICS_PREFIX \o << "S", "a", "l", "e", "s", "_", "D", "E", "S", "C" >>, value |-> "sales figures"],
      [key |-> ANALYTICS_PREFIX \o << "M", "A", "I", "N", "_", "D", "E", "S", "C" >>, value |-> ""],
      [key |-> ANALYTICS_PREFIX \o << "D", "E", "S", "C" >>, value |-> "orphan"],
      [key |-> << "P", "A", "T", "H" >>, value |-> "/bin"] }

\* the lists of at most MaxRegEnv of them with distinct keys
RegistryEnvirons ==
    UNION { {e \in [1 .. n -> RegistrySettings] :
                \A i, j \in 1 .. n : i # j => e[i].key # e[j].key} :
            n \in 0 .. MaxRegEnv }

\* the candidate settings of the process environment
EnvSettings ==
    { [key |-> ANALYTICS_PREFIX \o << "M", "A", "I", "N" >>, value |-> "url_main"],
      [key |-> ANALYTICS_PREFIX \o << "S", "A", "L", "E", "S" >>, value |-> "url_sales"],
      [key |-> ANALYTICS_PREFIX \o << " ", "M", "a", "i", "n" >>, value |-> "url_main2"] }

\* the lists of at most MaxEnv settings with distinct keys
Environs ==
    UNION { {e \in [1 .. n -> EnvSettings] :
                \A i, j \in 1 .. n : i # j => e[i].key # e[j].key} :
            n \in 0 .. MaxEnv }

\* None, the absent argument
None == << "<None>" >>

\* the database arguments of the tool calls
DatabaseArgs ==
    { None, << >>, << "m", "a", "i", "n" >>, << "M", "a", "i", "n" >>,
      << " ", "M", "a", "i", "n", " " >>, << "s", "a", "l", "e", "s" >>,
      << "n", "o", "p", "e" >> }

\* the lexical pieces query texts are made of
Pieces ==
    { << " " >>, << ";" >>, << "(" >>, << "-", "-", "c", "\n" >>, << "x" >>,
      << "d", "r", "o", "p" >>, << "U", "p", "d", "a", "t", "e" >> }

\* the query texts: every concatenation of at most MaxPieces pieces
Queries ==
    UNION { {Concat(l) : l \in [1 .. n -> Pieces]} : n \in 0 .. MaxPieces }

(***************************************************************************)
(* State                                                                   *)
(***************************************************************************)
VARIABLES
    environ,            \* os.environ, the items in iteration order
    main_pc,            \* position in the module body of dash/agent.py
    analytics_registry, \* dash/agent.py analytics_registry (a dict)
    sql_tools_map,      \* create_analytics_sql_tools: name -> SQLTools
    engines,            \* create_introspect_schema_tool: name -> engine
    created,            \* every connection handle constructed so far
    calls,              \* per caller: the tool call in progress or finished
    analytics_descriptions, \* dash/agent.py analytics_descriptions (a dict)
    config_warnings,    \* the warnings db/config.py has logged
    sql,                \* check_query_safety: the statement given
    verdict,            \* check_query_safety: the result returned
    catalog,            \* the schemas and tables the resolved backend reports
    report,             \* the outcome of the tool call made on the catalog
    gate,               \* _reject_writes: what the strict gate did with sql
    embed_env,          \* os.environ: the METABASE_* and OS_SECURITY_KEY settings
    now,                \* int(time()), the clock in seconds
    run_context,        \* the RunContext of the agent run: metadata, session_state
    embed_call,         \* the outcome of the last embed call
    http                \* embed-refresh endpoint: the request and its response

vars ==
    << environ, main_pc, analytics_registry, sql_tools_map, engines, created, calls,
       analytics_descriptions, config_warnings, sql, verdict, catalog, report,
       gate, embed_env, now, run_context, embed_call, http >>

\* the state of the advisory check, of the catalog inspection and of the
\* embed helpers
Other == << sql, verdict, catalog, report, gate, embed_env, now, run_context, embed_call, http >>

EmbedUnused ==
    /\ embed_env = [set |-> FALSE]
    /\ now = 0
    /\ run_context = [set |-> FALSE]
    /\ embed_call = [op |-> "none"]
    /\ http = [op |-> "none"]

\* no verdict yet
NoVerdict == [ok |-> FALSE, errors |-> << >>, warnings |-> << >>, set |-> FALSE]

\* no catalog and no report
NoCatalog == [schemas |-> << >>]

NoReport == [op |-> "none"]

\* no tool call yet
IdleCall ==
    [pc |-> "idle", op |-> "none", database |-> None, query |-> << >>,
     name |-> << >>, handle |-> 0, backend |-> 0,
     kind |-> "none", error |-> "none", available |-> << >>]

\* a tool call that was just invoked with its arguments
NewCall(op, database, query, pc) ==
    [IdleCall EXCEPT !.pc = pc, !.op = op, !.database = database, !.query = query]

Init ==
    /\ environ \in Environs
    /\ main_pc = "registry"
    /\ analytics_registry = << >>
    /\ sql_tools_map = << >>
    /\ engines = << >>
    /\ created = {}
    /\ calls = [c \in Callers |-> IdleCall]
    /\ analytics_descriptions = << >>
    /\ config_warnings = << >>
    /\ sql = << >>
    /\ verdict = NoVerdict
    /\ catalog = NoCatalog
    /\ report = NoReport
    /\ gate = "unset"
    /\ EmbedUnused

(***************************************************************************)
(* Module body of dash/agent.py                                            *)
(***************************************************************************)
\* analytics_registry = get_analytics_registry()
BuildRegistry ==
    /\ main_pc = "registry"
    /\ analytics_registry' = GetAnalyticsRegistry(environ)
    /\ main_pc' = "descriptions"
    /\ UNCHANGED << environ, sql_tools_map, engines, created, calls,
                    analytics_descriptions, config_warnings, Other >>

\* analytics_descriptions = get_analytics_descriptions()
BuildDescriptions ==
    /\ main_pc = "descriptions"
    /\ analytics_descriptions' = GetAnalyticsDescriptions(environ)
    /\ main_pc' = "sql_tools"
    /\ UNCHANGED << environ, analytics_registry, sql_tools_map, engines, created, calls,
                    config_warnings, Other >>

\* the handles one factory constructs for a registry: one per item, numbered
\* from base + 1 in registry order
HandlesFor(registry, by, base) ==
    {[id |-> base + i, name |-> registry[i].name, url |-> registry[i].url, by |-> by] :
        i \in 1 .. Len(registry)}

\* the name -> handle dict one factory builds for a registry
HandleMap(registry, base) ==
    [i \in 1 .. Len(registry) |-> [name |-> registry[i].name, handle |-> base + i]]

\* analytics_tools = create_analytics_sql_tools(analytics_registry):
\* one SQLTools(db_url=url) per registry item, at construction
CreateAnalyticsSqlTools ==
    /\ main_pc = "sql_tools"
    /\ sql_tools_map' = HandleMap(analytics_registry, Cardinality(created))
    /\ created' = created \union HandlesFor(analytics_registry, "sql", Cardinality(created))
    /\ main_pc' = "introspect"
    /\ UNCHANGED << environ, analytics_registry, engines, calls,
                    analytics_descriptions, config_warnings, Other >>

\* introspect_schema = create_introspect_schema_tool(analytics_registry):
\* one create_engine(url) per registry item, at construction
CreateIntrospectSchemaTool ==
    /\ main_pc = "introspect"
    /\ engines' = HandleMap(analytics_registry, Cardinality(created))
    /\ created' = created \union HandlesFor(analytics_registry, "introspect", Cardinality(created))
    /\ main_pc' = "serving"
    /\ UNCHANGED << environ, analytics_registry, sql_tools_map, calls,
                    analytics_descriptions, config_warnings, Other >>

(***************************************************************************)
(* Name resolution                                                         *)
(***************************************************************************)
\* Python's `a or b` on optional strings
Or(a, b) == IF a = None \/ a = << >> THEN b ELSE a

\* db_names = list(tools_map.keys()), sorted
DbNamesSorted(tools_map) ==
    LET names == Elems(Keys(tools_map))
    IN  CHOOSE l \in [1 .. Cardinality(names) -> names] : Elems(l) = names /\ IsSorted(l)

\* db_names = list(tools_map.keys())
DbNames(tools_map) == Keys(tools_map)

\* default_db taken as the first name whatever the number of names
DefaultDbFirst(tools_map) == DbNames(tools_map)[1]

\* default_db = db_names[0] if len(db_names) == 1 else None
DefaultDb(tools_map) ==
    IF Len(DbNames(tools_map)) = 1 THEN DbNames(tools_map)[1] ELSE None

\* the handle stored under a key of the dict
Lookup(tools_map, name) ==
    (CHOOSE i \in 1 .. Len(tools_map) : tools_map[i].name = name)

\* _resolve preferring the default over the argument
ResolvePreferDefault(database, tools_map) ==
    LET name == Lower(Or(Or(DefaultDb(tools_map), database), << >>))
    IN  IF name \notin Elems(DbNames(tools_map))
        THEN [ok |-> FALSE, name |-> name, handle |-> 0, available |-> DbNames(tools_map)]
        ELSE [ok |-> TRUE, name |-> name,
              handle |-> tools_map[Lookup(tools_map, name)].handle, available |-> << >>]

\* _resolve of dash/tools/sql.py: the outcome for a database argument
sql_resolve(database, tools_map) ==
    LET name == Lower(Or(Or(database, DefaultDb(tools_map)), << >>))
    IN  IF name \notin Elems(DbNames(tools_map))
        THEN [ok |-> FALSE, name |-> name, handle |-> 0, available |-> DbNames(tools_map)]
        ELSE [ok |-> TRUE, name |-> name,
              handle |-> tools_map[Lookup(tools_map, name)].handle, available |-> << >>]

\* _resolve of dash/tools/introspect.py: the outcome for a database argument
introspect_resolve(database, tools_map) ==
    LET name == Lower(Or(Or(database, DefaultDb(tools_map)), << >>))
    IN  IF name \notin Elems(DbNames(tools_map))
        THEN [ok |-> FALSE, name |-> name, handle |-> 0, available |-> DbNames(tools_map)]
        ELSE [ok |-> TRUE, name |-> name,
              handle |-> tools_map[Lookup(tools_map, name)].handle, available |-> << >>]

(***************************************************************************)
(* Tool calls                                                              *)
(***************************************************************************)
\* what a backend call can do: succeed or raise
BackendOutcomes == {"ok", "OperationalError", "DatabaseError", "Exception"}

\* the call ends: kind is "returned" (a value goes back to the caller) or
\* "raised" (an exception propagates to the caller)
Finish(call, kind, error, name, available) ==
    [call EXCEPT !.pc = "done", !.kind = kind, !.error = error,
                 !.name = name, !.available = available]

\* the call continues on the handle it resolved
Resolved(call, r) ==
    [call EXCEPT !.pc = "backend", !.name = r.name, !.handle = r.handle]

CanCall(c) == main_pc = "serving" /\ calls[c].pc = "idle"

Frame ==
    UNCHANGED << environ, main_pc, analytics_registry, sql_tools_map, engines, created,
                 analytics_descriptions, config_warnings, Other >>

\* list_tables(database) is invoked
ListTablesCall(c, D) ==
    /\ CanCall(c)
    /\ \E d \in D : calls' = [calls EXCEPT ![c] = NewCall("list_tables", d, << >>, "resolve")]
    /\ Frame

\* list_tables whose resolution registers an unknown name in the map
ListTablesResolveRegistering(c) ==
    /\ calls[c].pc = "resolve" /\ calls[c].op = "list_tables"
    /\ LET r == sql_resolve(calls[c].database, sql_tools_map)
       IN  /\ calls' = [calls EXCEPT ![c] =
                  IF r.ok THEN Resolved(@, r)
                  ELSE Finish(@, "returned", "UnknownDatabase", r.name, r.available)]
           /\ sql_tools_map' =
                  IF r.ok THEN sql_tools_map
                  ELSE Append(sql_tools_map, [name |-> r.name, handle |-> 0])
    /\ UNCHANGED << environ, main_pc, analytics_registry, engines, created,
                    analytics_descriptions, config_warnings, Other >>

\* list_tables: engine = _resolve(database).db_engine, a ValueError caught
\* by `except Exception` and returned as text
ListTablesResolve(c) ==
    /\ calls[c].pc = "resolve" /\ calls[c].op = "list_tables"
    /\ LET r == sql_resolve(calls[c].database, sql_tools_map)
       IN  calls' = [calls EXCEPT ![c] =
                IF r.ok THEN Resolved(@, r)
                ELSE Finish(@, "returned", "UnknownDatabase", r.name, r.available)]
    /\ Frame

\* list_tables: inspect(engine), get_schema_names, get_table_names
ListTablesInspect(c) ==
    /\ calls[c].pc = "backend" /\ calls[c].op = "list_tables"
    /\ \E o \in BackendOutcomes :
          calls' = [calls EXCEPT ![c] =
              Finish([@ EXCEPT !.backend = @ + 1], "returned",
                     IF o = "ok" THEN "none" ELSE "BackendError", @.name, << >>)]
    /\ Frame

\* describe_table(table_name, database, schema) is invoked
DescribeTableCall(c, D) ==
    /\ CanCall(c)
    /\ \E d \in D : calls' = [calls EXCEPT ![c] = NewCall("describe_table", d, << >>, "resolve")]
    /\ Frame

\* describe_table constructing a new SQLTools at every resolution instead of
\* taking the one of the dict
DescribeTableResolveLazy(c) ==
    /\ calls[c].pc = "resolve" /\ calls[c].op = "describe_table"
    /\ LET r == sql_resolve(calls[c].database, sql_tools_map)
           id == Cardinality(created) + 1
       IN  /\ calls' = [calls EXCEPT ![c] =
                  IF r.ok THEN Resolved(@, [r EXCEPT !.handle = id])
                  ELSE Finish(@, "returned", "UnknownDatabase", r.name, r.available)]
           /\ created' =
                  IF r.ok
                  THEN created \union {[id |-> id, name |-> r.name, url |-> "url_lazy", by |-> "sql"]}
                  ELSE created
    /\ UNCHANGED << environ, main_pc, analytics_registry, sql_tools_map, engines,
                    analytics_descriptions, config_warnings, Other >>

\* describe_table: engine = _resolve(database).db_engine, a ValueError caught
\* by `except Exception` and returned as text
DescribeTableResolve(c) ==
    /\ calls[c].pc = "resolve" /\ calls[c].op = "describe_table"
    /\ LET r == sql_resolve(calls[c].database, sql_tools_map)
       IN  calls' = [calls EXCEPT ![c] =
                IF r.ok THEN Resolved(@, r)
                ELSE Finish(@, "returned", "UnknownDatabase", r.name, r.available)]
    /\ Frame

\* describe_table: inspect(engine), get_columns
DescribeTableInspect(c) ==
    /\ calls[c].pc = "backend" /\ calls[c].op = "describe_table"
    /\ \E o \in BackendOutcomes :
          calls' = [calls EXCEPT ![c] =
              Finish([@ EXCEPT !.backend = @ + 1], "returned",
                     IF o = "ok" THEN "none" ELSE "BackendError", @.name, << >>)]
    /\ Frame

\* run_sql_query(query, database) is invoked
RunSqlQueryCall(c, Q, D) ==
    /\ CanCall(c)
    /\ \E q \in Q, d \in D :
          calls' = [calls EXCEPT ![c] = NewCall("run_sql_query", d, q, "gate")]
    /\ Frame

\* run_sql_query: _reject_writes(query); its ValueError is not caught
RunSqlQueryRejectWrites(c) ==
    /\ calls[c].pc = "gate" /\ calls[c].op = "run_sql_query"
    /\ calls' = [calls EXCEPT ![c] =
          IF FirstTokenIsWrite(@.query)
          THEN Finish(@, "raised", "WriteRejected", << >>, << >>)
          ELSE [@ EXCEPT !.pc = "resolve"]]
    /\ Frame

\* run_sql_query: _resolve(database); its ValueError is not caught
RunSqlQueryResolve(c) ==
    /\ calls[c].pc = "resolve" /\ calls[c].op = "run_sql_query"
    /\ LET r == sql_resolve(calls[c].database, sql_tools_map)
       IN  calls' = [calls EXCEPT ![c] =
                IF r.ok THEN Resolved(@, r)
                ELSE Finish(@, "raised", "UnknownDatabase", r.name, r.available)]
    /\ Frame

\* run_sql_query: SQLTools.run_sql_query(query) sends the statement to the
\* backend; the library either reports a backend error as text or raises it
RunSqlQueryDispatch(c) ==
    /\ calls[c].pc = "backend" /\ calls[c].op = "run_sql_query"
    /\ \E o \in BackendOutcomes, k \in {"returned", "raised"} :
          /\ o = "ok" => k = "returned"
          /\ calls' = [calls EXCEPT ![c] =
                Finish([@ EXCEPT !.backend = @ + 1], k,
                       IF o = "ok" THEN "none" ELSE "BackendError", @.name, << >>)]
    /\ Frame

\* introspect_schema(table_name, schema, include_sample_data, sample_limit,
\* database) is invoked
IntrospectSchemaCall(c, D) ==
    /\ CanCall(c)
    /\ \E d \in D : calls' = [calls EXCEPT ![c] = NewCall("introspect_schema", d, << >>, "resolve")]
    /\ Frame

\* introspect_schema calling inspect(engine) on some engine before it
\* resolves the database argument
IntrospectSchemaResolveAfterInspect(c) ==
    /\ calls[c].pc = "resolve" /\ calls[c].op = "introspect_schema"
    /\ LET r == introspect_resolve(calls[c].database, engines)
       IN  calls' = [calls EXCEPT ![c] =
                IF r.ok THEN Resolved([@ EXCEPT !.backend = @ + 1], r)
                ELSE Finish([@ EXCEPT !.backend = @ + 1], "returned",
                            "UnknownDatabase", r.name, r.available)]
    /\ Frame

\* introspect_schema creating the engine on first use, check-then-create
\* without a lock: a resolution that finds no engine of its own for the
\* name creates one
IntrospectSchemaResolveLazy(c) ==
    /\ calls[c].pc = "resolve" /\ calls[c].op = "introspect_schema"
    /\ LET r == introspect_resolve(calls[c].database, engines)
           id == Cardinality(created) + 1
       IN  /\ calls' = [calls EXCEPT ![c] =
                  IF r.ok THEN Resolved(@, [r EXCEPT !.handle = id])
                  ELSE Finish(@, "returned", "UnknownDatabase", r.name, r.available)]
           /\ created' =
                  IF r.ok
                  THEN created \union {[id |-> id, name |-> r.name, url |-> "url_lazy", by |-> "introspect"]}
                  ELSE created
    /\ UNCHANGED << environ, main_pc, analytics_registry, sql_tools_map, engines,
                    analytics_descriptions, config_warnings, Other >>

\* introspect_schema: db_name, engine = _resolve(database), a ValueError
\* caught by `except ValueError` and returned as str(e)
IntrospectSchemaResolve(c) ==
    /\ calls[c].pc = "resolve" /\ calls[c].op = "introspect_schema"
    /\ LET r == introspect_resolve(calls[c].database, engines)
       IN  calls' = [calls EXCEPT ![c] =
                IF r.ok THEN Resolved(@, r)
                ELSE Finish(@, "returned", "UnknownDatabase", r.name, r.available)]
    /\ Frame

\* introspect_schema: inspect(engine) and the catalog and sample queries;
\* OperationalError and DatabaseError come back as text, any other
\* exception propagates
IntrospectSchemaInspect(c) ==
    /\ calls[c].pc = "backend" /\ calls[c].op = "introspect_schema"
    /\ \E o \in BackendOutcomes :
          calls' = [calls EXCEPT ![c] =
              Finish([@ EXCEPT !.backend = @ + 1],
                     IF o = "Exception" THEN "raised" ELSE "returned",
                     IF o = "ok" THEN "none" ELSE "BackendError", @.name, << >>)]
    /\ Frame

\* the orchestrator takes the outcome of a finished tool call; the caller is
\* free for its next call
Return(c) ==
    /\ calls[c].pc = "done"
    /\ calls' = [calls EXCEPT ![c] = IdleCall]
    /\ Frame

(***************************************************************************)
(* Specifications                                                          *)
(***************************************************************************)
\* the database arguments of the concurrent callers
ConcDatabaseArgs == { None, << "m", "a", "i", "n" >>, << "n", "o", "p", "e" >> }

\* the query texts of the concurrent callers
ConcQueries == { << "x" >>, << "d", "r", "o", "p" >> }

\* one caller, every input
Next ==
    \/ BuildRegistry
    \/ BuildDescriptions
    \/ CreateAnalyticsSqlTools
    \/ CreateIntrospectSchemaTool
    \/ ListTablesCall(1, DatabaseArgs)
    \/ ListTablesResolve(1)
    \/ ListTablesInspect(1)
    \/ DescribeTableCall(1, DatabaseArgs)
    \/ DescribeTableResolve(1)
    \/ DescribeTableInspect(1)
    \/ RunSqlQueryCall(1, Queries, DatabaseArgs)
    \/ RunSqlQueryRejectWrites(1)
    \/ RunSqlQueryResolve(1)
    \/ RunSqlQueryDispatch(1)
    \/ IntrospectSchemaCall(1, DatabaseArgs)
    \/ IntrospectSchemaResolve(1)
    \/ IntrospectSchemaInspect(1)
    \/ Return(1)

Spec == Init /\ [][Next]_vars

\* the orchestrator runs tool calls of several callers in parallel
NextConc ==
    \/ BuildRegistry
    \/ BuildDescriptions
    \/ CreateAnalyticsSqlTools
    \/ CreateIntrospectSchemaTool
    \/ \E c \in Callers :
          \/ ListTablesCall(c, ConcDatabaseArgs)
          \/ ListTablesResolve(c)
          \/ ListTablesInspect(c)
          \/ DescribeTableCall(c, ConcDatabaseArgs)
          \/ DescribeTableResolve(c)
          \/ DescribeTableInspect(c)
          \/ RunSqlQueryCall(c, ConcQueries, ConcDatabaseArgs)
          \/ RunSqlQueryRejectWrites(c)
          \/ RunSqlQueryResolve(c)
          \/ RunSqlQueryDispatch(c)
          \/ IntrospectSchemaCall(c, ConcDatabaseArgs)
          \/ IntrospectSchemaResolve(c)
          \/ IntrospectSchemaInspect(c)
          \/ Return(c)

SpecConc == Init /\ [][NextConc]_vars

\* the registry discovery alone, on every configuration
InitRegistry ==
    /\ environ \in RegistryEnvirons
    /\ main_pc = "registry"
    /\ analytics_registry = << >>
    /\ sql_tools_map = << >>
    /\ engines = << >>
    /\ created = {}
    /\ calls = [c \in Callers |-> IdleCall]
    /\ analytics_descriptions = << >>
    /\ config_warnings = << >>
    /\ sql = << >>
    /\ verdict = NoVerdict
    /\ catalog = NoCatalog
    /\ report = NoReport
    /\ gate = "unset"
    /\ EmbedUnused

NextRegistry ==
    \/ BuildRegistry
    \/ BuildDescriptions

SpecRegistry == InitRegistry /\ [][NextRegistry]_vars

(***************************************************************************)
(* The advisory check as a script: check_query_safety.py main()            *)
(***************************************************************************)
\* the lexical pieces a statement is built from
SqlPieces ==
    { << " " >>,
      << ";" >>,
      << "(" >>,
      << "*" >>,
      << "x" >>,
      << "S", "E", "L", "E", "C", "T", " " >>,
      << "s", "e", "l", "e", "c", "t" >>,
      << "\n", "l", "i", "m", "i", "t", " ", "1" >>,
      << "d", "r", "o", "p" >>,
      << "U", "p", "d", "a", "t", "e" >> }

\* the statements given with --sql or on stdin
SqlTexts ==
    UNION {{Concat(l) : l \in [1 .. n -> SqlPieces]} : n \in 0 .. MaxSqlPieces}

\* the script starts with its input and no verdict
InitSafety ==
    /\ sql \in SqlTexts
    /\ verdict = NoVerdict
    /\ environ = << >>
    /\ main_pc = "script"
    /\ analytics_registry = << >>
    /\ sql_tools_map = << >>
    /\ engines = << >>
    /\ created = {}
    /\ calls = [c \in Callers |-> IdleCall]
    /\ analytics_descriptions = << >>
    /\ config_warnings = << >>
    /\ catalog = NoCatalog
    /\ report = NoReport
    /\ gate = "unset"
    /\ EmbedUnused

\* main(): result = check_query_safety(sql)
CheckQuerySafety ==
    /\ main_pc = "script"
    /\ ~verdict.set
    /\ LET result == check_query_safety(sql)
       IN  verdict' = [ok |-> result.ok, errors |-> result.errors,
                       warnings |-> result.warnings, set |-> TRUE]
    /\ UNCHANGED << environ, main_pc, analytics_registry, sql_tools_map, engines, created,
                    calls, analytics_descriptions, config_warnings, sql, catalog, report,
                    gate, embed_env, now, run_context, embed_call, http >>

\* the execution path on the same statement: _reject_writes(sql)
RejectWrites ==
    /\ main_pc = "script"
    /\ gate = "unset"
    /\ gate' = IF FirstTokenIsWrite(sql) THEN "rejected" ELSE "passed"
    /\ UNCHANGED << environ, main_pc, analytics_registry, sql_tools_map, engines, created,
                    calls, analytics_descriptions, config_warnings, sql, verdict, catalog,
                    report, embed_env, now, run_context, embed_call, http >>

NextSafety == CheckQuerySafety \/ RejectWrites

SpecSafety == InitSafety /\ [][NextSafety]_vars

(***************************************************************************)
(* Catalog inspection: list_tables, describe_table (dash/tools/sql.py) and *)
(* introspect_schema (dash/tools/introspect.py) on one backend catalog     *)
(***************************************************************************)
\* _EXCLUDED_SCHEMAS of dash/tools/sql.py
SQL_EXCLUDED_SCHEMAS ==
    { << "i", "n", "f", "o", "r", "m", "a", "t", "i", "o", "n", "_",
         "s", "c", "h", "e", "m", "a" >>,
      << "p", "g", "_", "c", "a", "t", "a", "l", "o", "g" >>,
      << "p", "g", "_", "t", "o", "a", "s", "t" >>,
      << "p", "g", "_", "i", "n", "t", "e", "r", "n", "a", "l" >> }

\* _EXCLUDED_SCHEMAS of dash/tools/introspect.py
INTROSPECT_EXCLUDED_SCHEMAS ==
    { << "i", "n", "f", "o", "r", "m", "a", "t", "i", "o", "n", "_",
         "s", "c", "h", "e", "m", "a" >>,
      << "p", "g", "_", "c", "a", "t", "a", "l", "o", "g" >>,
      << "p", "g", "_", "t", "o", "a", "s", "t" >>,
      << "p", "g", "_", "i", "n", "t", "e", "r", "n", "a", "l" >> }

\* the schema names a backend catalog may report
SchemaNames ==
    { << "p", "u", "b", "l", "i", "c" >>,
      << "s", "a", "l", "e", "s" >>,
      << "p", "g", "_", "c", "a", "t", "a", "l", "o", "g" >>,
      << "i", "n", "f", "o", "r", "m", "a", "t", "i", "o", "n", "_",
         "s", "c", "h", "e", "m", "a" >>,
      << "I", "N", "F", "O", "R", "M", "A", "T", "I", "O", "N", "_",
         "S", "C", "H", "E", "M", "A" >> }

\* the table lists a schema may hold, in the order the catalog reports them
TableLists == { << >>, << << "a" >> >>, << << "b" >>, << "a" >> >> }

\* the catalogs: at most MaxSchemas distinct schemas, in reported order
Catalogs ==
    UNION { {[schemas |-> l] :
                l \in {m \in [1 .. n -> [name : SchemaNames, tables : TableLists]] :
                          \A i, j \in 1 .. n : i # j => m[i].name # m[j].name}} :
            n \in 0 .. MaxSchemas }

\* the schema a backend uses when none is named
DEFAULT_SCHEMA == << "p", "u", "b", "l", "i", "c" >>

\* inspector.get_schema_names()
GetSchemaNames(cat) == [i \in 1 .. Len(cat.schemas) |-> cat.schemas[i].name]

\* inspector.get_table_names(schema=schema)
GetTableNames(cat, schema) ==
    LET s == IF schema = None THEN DEFAULT_SCHEMA ELSE schema
    IN  IF \E i \in 1 .. Len(cat.schemas) : cat.schemas[i].name = s
        THEN cat.schemas[CHOOSE i \in 1 .. Len(cat.schemas) : cat.schemas[i].name = s].tables
        ELSE << >>

RECURSIVE SelectNotIn(_, _)
\* [s for s in l if s not in excluded]
SelectNotIn(l, excluded) ==
    IF l = << >> THEN << >>
    ELSE (IF Head(l) \notin excluded THEN << Head(l) >> ELSE << >>)
         \o SelectNotIn(Tail(l), excluded)

\* the arguments of the calls
CatalogDatabaseArgs == { None, << "n", "o", "p", "e" >> }

SchemaArgs == { None, << >>, << "s", "a", "l", "e", "s" >>,
                << "p", "g", "_", "c", "a", "t", "a", "l", "o", "g" >> }

TableArgs == { << "a" >>, << "n", "o", "p", "e" >> }

\* the outcome of a call, as the caller sees it
NewReport(op, table, schema) ==
    [op |-> op, table |-> table, schema |-> schema,
     kind |-> "returned", error |-> "none",
     listing |-> << >>, available |-> << >>,
     column_queries |-> 0, sample_queries |-> 0,
     failing |-> {}, count_error |-> "none",
     rows |-> << >>, rendered |-> << >>, sample_error |-> "none"]

\* the call ends with a message about a failure, or with the failure raised
Failed(r, kind, error) == [r EXCEPT !.kind = kind, !.error = error]

\* the tools were created for the one database "main"
InitCatalog ==
    /\ catalog \in Catalogs
    /\ report = NoReport
    /\ gate = "unset"
    /\ EmbedUnused
    /\ environ = << [key |-> ANALYTICS_PREFIX \o << "M", "A", "I", "N" >>, value |-> "url_main"] >>
    /\ main_pc = "serving"
    /\ analytics_registry = GetAnalyticsRegistry(environ)
    /\ analytics_descriptions = GetAnalyticsDescriptions(environ)
    /\ sql_tools_map = HandleMap(analytics_registry, 0)
    /\ engines = HandleMap(analytics_registry, Len(analytics_registry))
    /\ created = HandlesFor(analytics_registry, "sql", 0)
                     \union HandlesFor(analytics_registry, "introspect", Len(analytics_registry))
    /\ calls = [c \in Callers |-> IdleCall]
    /\ config_warnings = << >>
    /\ sql = << >>
    /\ verdict = NoVerdict

CatalogFrame ==
    UNCHANGED << environ, main_pc, analytics_registry, sql_tools_map, engines, created,
                 calls, analytics_descriptions, config_warnings, sql, verdict, catalog,
                 gate, embed_env, now, run_context, embed_call, http >>

\* list_tables(database): the schemas of the catalog that are not excluded
\* and hold tables, in catalog order; any exception is returned as text
ListTables ==
    /\ main_pc = "serving" /\ report = NoReport
    /\ \E d \in CatalogDatabaseArgs, o \in BackendOutcomes :
          LET r == NewReport("list_tables", None, None)
              schemas == SelectNotIn(GetSchemaNames(catalog), SQL_EXCLUDED_SCHEMAS)
              result == [i \in 1 .. Len(schemas) |->
                            [schema |-> schemas[i],
                             tables |-> [j \in 1 .. Len(GetTableNames(catalog, schemas[i])) |->
                                            [name |-> GetTableNames(catalog, schemas[i])[j],
                                             counted |-> FALSE]]]]
          IN  report' =
                  IF ~sql_resolve(d, sql_tools_map).ok
                  THEN Failed(r, "returned", "UnknownDatabase")
                  ELSE IF o # "ok" THEN Failed(r, "returned", "BackendError")
                  ELSE [r EXCEPT !.listing = SelectSeq(result, LAMBDA e : e.tables # << >>)]
    /\ CatalogFrame

\* describe_table(table_name, database, schema): get_columns is called for
\* the table without a look at the tables of the schema; for a table the
\* schema does not hold, the dialect either raises NoSuchTableError or
\* reports no columns; any exception is returned as text
DescribeTable ==
    /\ main_pc = "serving" /\ report = NoReport
    /\ \E d \in CatalogDatabaseArgs, t \in TableArgs, s \in SchemaArgs \ {<< >>},
          o \in BackendOutcomes, missing \in {"NoSuchTableError", "no columns"} :
          LET r == NewReport("describe_table", t, s)
          IN  report' =
                  IF ~sql_resolve(d, sql_tools_map).ok
                  THEN Failed(r, "returned", "UnknownDatabase")
                  ELSE IF o # "ok"
                  THEN Failed([r EXCEPT !.column_queries = 1], "returned", "BackendError")
                  ELSE IF t \notin Elems(GetTableNames(catalog, s))
                          /\ missing = "NoSuchTableError"
                  THEN Failed([r EXCEPT !.column_queries = 1], "returned", "NoSuchTableError")
                  ELSE [r EXCEPT !.column_queries = 1]
    /\ CatalogFrame

\* introspect_schema(table_name=None, schema, database): the scanned schemas
\* sorted, their tables sorted, a row count for each table whose count
\* query does not fail; `except (OperationalError, DatabaseError)` around
\* the count query lets any other exception of it leave the call
IntrospectListTables ==
    /\ main_pc = "serving" /\ report = NoReport
    /\ \E d \in CatalogDatabaseArgs, s \in SchemaArgs, o \in BackendOutcomes,
          failing \in SUBSET {<< "a" >>, << "b" >>}, count_error \in {"OperationalError", "DatabaseError", "Exception"} :
          LET r == [NewReport("introspect_schema", None, s) EXCEPT
                        !.failing = failing,
                        !.count_error = IF failing = {} THEN "none" ELSE count_error]
              schemas_to_scan ==
                  IF s # None /\ s # << >> THEN << s >>
                  ELSE SelectNotIn(GetSchemaNames(catalog), INTROSPECT_EXCLUDED_SCHEMAS)
              scanned == SortedList(Elems(schemas_to_scan))
              lines == [i \in 1 .. Len(scanned) |->
                          LET tables == SortedList(Elems(GetTableNames(catalog, scanned[i])))
                          IN  [schema |-> scanned[i],
                               tables |-> [j \in 1 .. Len(tables) |->
                                              [name |-> tables[j],
                                               counted |-> tables[j] \notin failing]]]]
              uncaught == /\ count_error = "Exception"
                          /\ \E i \in 1 .. Len(lines) : \E j \in 1 .. Len(lines[i].tables) :
                                ~lines[i].tables[j].counted
          IN  report' =
                  IF ~introspect_resolve(d, engines).ok
                  THEN Failed(r, "returned", "UnknownDatabase")
                  ELSE IF o \in {"OperationalError", "DatabaseError"}
                  THEN Failed(r, "returned", "BackendError")
                  ELSE IF o = "Exception" THEN Failed(r, "raised", "BackendError")
                  ELSE IF uncaught THEN Failed(r, "raised", "CountError")
                  ELSE [r EXCEPT !.listing = SelectSeq(lines, LAMBDA e : e.tables # << >>)]
    /\ CatalogFrame

\* the values a cell of a sample row may hold: None, integers, booleans, text
PyNone == [type |-> "NoneType", n |-> 0, b |-> FALSE, text |-> << >>]

PyInt(n) == [type |-> "int", n |-> n, b |-> FALSE, text |-> << >>]

PyBool(b) == [type |-> "bool", n |-> 0, b |-> b, text |-> << >>]

PyStr(text) == [type |-> "str", n |-> 0, b |-> FALSE, text |-> text]

CellValues ==
    {PyNone} \union {PyInt(n) : n \in {0, 7, 12}} \union {PyBool(b) : b \in BOOLEAN}
        \union {PyStr([i \in 1 .. n |-> "x"]) : n \in 0 .. MaxTextLen}

\* the rows a sample query may return: none, or one row of one cell
SampleRows == { << >> } \union {<< << v >> >> : v \in CellValues}

RECURSIVE StrOfNat(_)
\* str(n) for an int n >= 0
StrOfNat(n) ==
    LET digit == << "0", "1", "2", "3", "4", "5", "6", "7", "8", "9" >>[(n % 10) + 1]
    IN  IF n < 10 THEN << digit >> ELSE StrOfNat(n \div 10) \o << digit >>

\* str(v)
StrOf(v) ==
    CASE v.type = "NoneType" -> << "N", "o", "n", "e" >>
      [] v.type = "int" -> StrOfNat(v.n)
      [] v.type = "bool" -> IF v.b THEN << "T", "r", "u", "e" >>
                                   ELSE << "F", "a", "l", "s", "e" >>
      [] v.type = "str" -> v.text

\* bool(v)
Truthy(v) ==
    CASE v.type = "NoneType" -> FALSE
      [] v.type = "int" -> v.n # 0
      [] v.type = "bool" -> v.b
      [] v.type = "str" -> v.text # << >>

\* str(v)[:30] if v else "NULL"
RenderCell(v) ==
    IF Truthy(v) THEN SubSeq(StrOf(v), 1, IF Len(StrOf(v)) < 30 THEN Len(StrOf(v)) ELSE 30)
    ELSE << "N", "U", "L", "L" >>

\* introspect_schema(table_name, schema, include_sample_data, database):
\* the table is looked up in get_table_names(schema) before anything is
\* asked about it; the sample query is wrapped in
\* `except (OperationalError, DatabaseError)`, which puts the error in the
\* output, and any other exception of it leaves the call
IntrospectDescribeTable ==
    /\ main_pc = "serving" /\ report = NoReport
    /\ \E d \in CatalogDatabaseArgs, t \in TableArgs, s \in SchemaArgs \ {<< >>},
          include_sample_data \in BOOLEAN, o \in BackendOutcomes :
       \E sample \in (IF include_sample_data /\ o = "ok" THEN BackendOutcomes ELSE {"ok"}) :
       \E rows \in (IF include_sample_data /\ o = "ok" /\ sample = "ok"
                    THEN SampleRows ELSE { << >> }) :
          LET r == NewReport("introspect_schema", t, s)
              tables == GetTableNames(catalog, s)
              described == [r EXCEPT !.column_queries = 1]
              sampled == [described EXCEPT !.sample_queries = 1]
          IN  report' =
                  IF ~introspect_resolve(d, engines).ok
                  THEN Failed(r, "returned", "UnknownDatabase")
                  ELSE IF o \in {"OperationalError", "DatabaseError"}
                  THEN Failed(r, "returned", "BackendError")
                  ELSE IF o = "Exception" THEN Failed(r, "raised", "BackendError")
                  ELSE IF t \notin Elems(tables)
                  THEN [Failed(r, "returned", "TableNotFound") EXCEPT
                            !.available = SortedList(Elems(tables))]
                  ELSE IF ~include_sample_data THEN described
                  ELSE IF sample \in {"OperationalError", "DatabaseError"}
                  THEN [sampled EXCEPT !.sample_error = sample]
                  ELSE IF sample = "Exception" THEN Failed(sampled, "raised", "SampleError")
                  ELSE [sampled EXCEPT
                            !.rows = rows,
                            !.rendered = [i \in 1 .. Len(rows) |->
                                             [j \in 1 .. Len(rows[i]) |->
                                                 RenderCell(rows[i][j])]]]
    /\ CatalogFrame

NextCatalog ==
    \/ ListTables
    \/ DescribeTable
    \/ IntrospectListTables
    \/ IntrospectDescribeTable

SpecCatalog == InitCatalog /\ [][NextCatalog]_vars

(***************************************************************************)
(* Signed Metabase embeds: dash/tools/metabase_embed.py                    *)
(***************************************************************************)
DEFAULT_EMBED_TTL_SECONDS == 900

MIN_EMBED_TTL_SECONDS == 60

MAX_EMBED_TTL_SECONDS == 3600

\* _env_or_default on the value getenv returned
EnvOrDefault(value, default) ==
    IF value = None THEN default
    ELSE IF Strip(value) # << >> THEN Strip(value) ELSE default

RECURSIVE RStripSlashes(_)
\* str.rstrip("/")
RStripSlashes(s) ==
    IF s # << >> /\ s[Len(s)] = "/" THEN RStripSlashes(SubSeq(s, 1, Len(s) - 1)) ELSE s

\* the schemes _normalize_site_url accepts
URL_SCHEMES ==
    { << "h", "t", "t", "p", ":", "/", "/" >>, << "h", "t", "t", "p", "s", ":", "/", "/" >> }

\* _normalize_site_url without the test of the scheme
NormalizeSiteUrlAnyScheme(url) ==
    LET normalized == RStripSlashes(Strip(url))
    IN  IF normalized = << >> THEN [raised |-> "RuntimeError", url |-> << >>]
        ELSE [raised |-> "none", url |-> normalized]

\* _normalize_site_url: the normalized URL, or the RuntimeError raised
NormalizeSiteUrl(url) ==
    LET normalized == RStripSlashes(Strip(url))
    IN  IF normalized = << >> THEN [raised |-> "RuntimeError", url |-> << >>]
        ELSE IF \A scheme \in URL_SCHEMES : ~StartsWith(normalized, scheme)
        THEN [raised |-> "RuntimeError", url |-> << >>]
        ELSE [raised |-> "none", url |-> normalized]

RECURSIVE DigitsValue(_)
\* the value of a string of decimal digits
DigitsValue(s) ==
    IF s = << >> THEN 0
    ELSE LET c == s[Len(s)]
             digit == CASE c = "0" -> 0 [] c = "1" -> 1 [] c = "2" -> 2 [] c = "3" -> 3
                        [] c = "4" -> 4 [] c = "5" -> 5 [] c = "6" -> 6 [] c = "7" -> 7
                        [] c = "8" -> 8 [] c = "9" -> 9
         IN  10 * DigitsValue(SubSeq(s, 1, Len(s) - 1)) + digit

\* int(text): surrounding whitespace, an optional sign, decimal digits;
\* anything else is a ValueError
ParseInt(text) ==
    LET t == Strip(text)
        signed == t # << >> /\ t[1] \in {"+", "-"}
        digits == IF signed THEN Tail(t) ELSE t
    IN  IF digits = << >> \/ \E i \in 1 .. Len(digits) : digits[i] \notin
                                    {"0", "1", "2", "3", "4", "5", "6", "7", "8", "9"}
        THEN [raised |-> "ValueError", n |-> 0]
        ELSE [raised |-> "none",
              n |-> IF signed /\ t[1] = "-" THEN 0 - DigitsValue(digits)
                    ELSE DigitsValue(digits)]

\* _parse_ttl_seconds without the lower clamp
ParseTtlSecondsNoMinimum(env) ==
    LET ttl == ParseInt(EnvOrDefault(env.METABASE_EMBED_TTL_SECONDS,
                                     StrOfNat(DEFAULT_EMBED_TTL_SECONDS)))
    IN  IF ttl.raised # "none" THEN [raised |-> "RuntimeError", ttl |-> 0]
        ELSE IF ttl.n > MAX_EMBED_TTL_SECONDS
        THEN [raised |-> "none", ttl |-> MAX_EMBED_TTL_SECONDS]
        ELSE [raised |-> "none", ttl |-> ttl.n]

\* _parse_ttl_seconds
ParseTtlSeconds(env) ==
    LET ttl == ParseInt(EnvOrDefault(env.METABASE_EMBED_TTL_SECONDS,
                                     StrOfNat(DEFAULT_EMBED_TTL_SECONDS)))
    IN  IF ttl.raised # "none" THEN [raised |-> "RuntimeError", ttl |-> 0]
        ELSE IF ttl.n < MIN_EMBED_TTL_SECONDS
        THEN [raised |-> "none", ttl |-> MIN_EMBED_TTL_SECONDS]
        ELSE IF ttl.n > MAX_EMBED_TTL_SECONDS
        THEN [raised |-> "none", ttl |-> MAX_EMBED_TTL_SECONDS]
        ELSE [raised |-> "none", ttl |-> ttl.n]

RECURSIVE SplitOn(_, _)
\* str.split(sep) for a separator of one character
SplitOn(s, sep) ==
    IF \A i \in 1 .. Len(s) : s[i] # sep THEN << s >>
    ELSE LET i == CHOOSE j \in 1 .. Len(s) : s[j] = sep /\ \A k \in 1 .. j - 1 : s[k] # sep
         IN  << SubSeq(s, 1, i - 1) >> \o SplitOn(SubSeq(s, i + 1, Len(s)), sep)

RECURSIVE AllowedIds(_)
\* the loop of _parse_allowed_question_ids over the tokens: the ids added to
\* the allowlist, or the RuntimeError raised at the first bad token
AllowedIds(tokens) ==
    IF tokens = << >> THEN [raised |-> "none", ids |-> {}]
    ELSE LET item == Strip(Head(tokens))
             rest == AllowedIds(Tail(tokens))
         IN  IF item = << >> THEN rest
             ELSE IF ParseInt(item).raised # "none" \/ ParseInt(item).n <= 0
             THEN [raised |-> "RuntimeError", ids |-> {}]
             ELSE IF rest.raised # "none" THEN rest
             ELSE [raised |-> "none", ids |-> {ParseInt(item).n} \union rest.ids]

\* _parse_allowed_question_ids: none |-> TRUE stands for the result None
ParseAllowedQuestionIds(env) ==
    LET raw == EnvOrDefault(env.METABASE_ALLOWED_QUESTION_IDS, << >>)
        parsed == AllowedIds(SplitOn(raw, ","))
    IN  IF raw = << >> THEN [raised |-> "none", none |-> TRUE, ids |-> {}]
        ELSE IF parsed.raised # "none" THEN [raised |-> "RuntimeError", none |-> TRUE, ids |-> {}]
        ELSE [raised |-> "none", none |-> parsed.ids = {}, ids |-> parsed.ids]

\* is_metabase_embedding_configured
IsMetabaseEmbeddingConfigured(env) ==
    /\ EnvOrDefault(env.METABASE_SITE_URL, EnvOrDefault(env.METABASE_URL, << >>)) # << >>
    /\ EnvOrDefault(env.METABASE_EMBED_SECRET, << >>) # << >>

\* no embed was built
NoEmbed == [kind |-> "none"]

\* jwt.encode(payload, embed_secret, algorithm="HS256"): the token stands for
\* the payload it carries and the secret that signed it
JwtEncode(payload, secret) == [payload |-> payload, signed_with |-> secret]

\* build_metabase_question_embed whose allowlist test is skipped
BuildEmbedIgnoringAllowlist(env, time, question_id, title) ==
    LET site_url == NormalizeSiteUrl(EnvOrDefault(env.METABASE_SITE_URL,
                                                  EnvOrDefault(env.METABASE_URL, << >>)))
        embed_secret == EnvOrDefault(env.METABASE_EMBED_SECRET, << >>)
        ttl_seconds == ParseTtlSeconds(env)
        expires_at == time + ttl_seconds.ttl
        token == JwtEncode([resource |-> [question |-> question_id], params |-> << >>,
                            exp |-> expires_at],
                           embed_secret)
    IN  IF question_id <= 0 \/ site_url.raised # "none" \/ embed_secret = << >>
           \/ ttl_seconds.raised # "none"
        THEN [raised |-> "RuntimeError", embed |-> NoEmbed]
        ELSE [raised |-> "none",
              embed |-> [kind |-> "metabase_question", question_id |-> question_id,
                         iframe_url |-> << site_url.url, "/embed/question/", token,
                                           "#bordered=true&titled=true" >>,
                         open_url |-> << site_url.url, "/question/", question_id >>,
                         expires_at |-> expires_at,
                         title |-> None]]

\* build_metabase_question_embed(question_id, title) called at int(time()) =
\* time: the exception raised, or the embed returned
build_metabase_question_embed(env, time, question_id, title) ==
    LET allowlist == ParseAllowedQuestionIds(env)
        site_url == NormalizeSiteUrl(EnvOrDefault(env.METABASE_SITE_URL,
                                                  EnvOrDefault(env.METABASE_URL, << >>)))
        embed_secret == EnvOrDefault(env.METABASE_EMBED_SECRET, << >>)
        ttl_seconds == ParseTtlSeconds(env)
        expires_at == time + ttl_seconds.ttl
        token == JwtEncode([resource |-> [question |-> question_id], params |-> << >>,
                            exp |-> expires_at],
                           embed_secret)
        clean_title == IF title = None THEN << >> ELSE Strip(title)
    IN  IF question_id <= 0 THEN [raised |-> "ValueError", embed |-> NoEmbed]
        ELSE IF allowlist.raised # "none" THEN [raised |-> "RuntimeError", embed |-> NoEmbed]
        ELSE IF ~allowlist.none /\ question_id \notin allowlist.ids
        THEN [raised |-> "PermissionError", embed |-> NoEmbed]
        ELSE IF site_url.raised # "none" THEN [raised |-> "RuntimeError", embed |-> NoEmbed]
        ELSE IF embed_secret = << >> THEN [raised |-> "RuntimeError", embed |-> NoEmbed]
        ELSE IF ttl_seconds.raised # "none" THEN [raised |-> "RuntimeError", embed |-> NoEmbed]
        ELSE [raised |-> "none",
              embed |-> [kind |-> "metabase_question", question_id |-> question_id,
                         iframe_url |-> << site_url.url, "/embed/question/", token,
                                           "#bordered=true&titled=true" >>,
                         open_url |-> << site_url.url, "/question/", question_id >>,
                         expires_at |-> expires_at,
                         title |-> IF clean_title # << >> THEN clean_title ELSE None]]

\* the environments of the embed helpers: every setting is unset (None),
\* blank, valid or invalid
EmbedEnvs ==
    [set : {TRUE},
     METABASE_SITE_URL :
         { None,
           << "h", "t", "t", "p", "s", ":", "/", "/", "m", "b", ".", "e", "x", "a", "m", "p",
              "l", "e", "/" >>,
           << "m", "b", ".", "e", "x", "a", "m", "p", "l", "e" >> },
     METABASE_URL :
         { None,
           << "h", "t", "t", "p", ":", "/", "/", "m", "b", "2" >> },
     METABASE_EMBED_SECRET :
         { None,
           << " " >>,
           << "s", "3" >> },
     METABASE_EMBED_TTL_SECONDS :
         { None,
           << >>,
           << " " >>,
           << "1" >>,
           << "0" >>,
           << "-", "5" >>,
           << "5", "9" >>,
           << "6", "0" >>,
           << " ", "6", "1", " " >>,
           << "9", "0", "0" >>,
           << "3", "6", "0", "0" >>,
           << "3", "6", "0", "1" >>,
           << "9", "9", "9", "9", "9" >>,
           << "a", "b", "c" >>,
           << "1", ".", "5" >> },
     METABASE_ALLOWED_QUESTION_IDS :
         { None,
           << " ", ",", " " >>,
           << "1", ",", "2", ",", "3" >>,
           << " ", "2", " ", ",", " ", "4", "2" >>,
           << "1", ",", "a", "b", "c", ",", "3" >>,
           << "0" >>,
           << "2", ",", "-", "1" >> },
     OS_SECURITY_KEY : {None}]

\* the clock readings at which an embed is signed
Times == {1000, 5000}

\* a process that builds embeds from its environment
InitEmbedBuild ==
    /\ embed_env \in EmbedEnvs
    /\ now \in Times
    /\ run_context = [set |-> FALSE]
    /\ embed_call = [op |-> "none"]
    /\ http = [op |-> "none"]
    /\ environ = << >>
    /\ main_pc = "embed"
    /\ analytics_registry = << >>
    /\ sql_tools_map = << >>
    /\ engines = << >>
    /\ created = {}
    /\ calls = [c \in Callers |-> IdleCall]
    /\ analytics_descriptions = << >>
    /\ config_warnings = << >>
    /\ sql = << >>
    /\ verdict = NoVerdict
    /\ catalog = NoCatalog
    /\ report = NoReport
    /\ gate = "unset"

EmbedFrame ==
    UNCHANGED << environ, main_pc, analytics_registry, sql_tools_map, engines, created,
                 calls, analytics_descriptions, config_warnings, sql, verdict, catalog,
                 report, gate >>

\* a caller invokes build_metabase_question_embed(question_id, title)
BuildMetabaseQuestionEmbed ==
    /\ main_pc = "embed" /\ embed_call = [op |-> "none"]
    /\ \E question_id \in {0 - 1, 0, 1, 2, 42}, title \in { None, << " ", "T", " " >>, << " " >> } :
          \E result \in {build_metabase_question_embed(embed_env, now, question_id, title)} :
              embed_call' = [op |-> "build", question_id |-> question_id, title |-> title,
                             at |-> now, raised |-> result.raised, embed |-> result.embed]
    /\ UNCHANGED << embed_env, now, run_context, http >>
    /\ EmbedFrame

SpecEmbedBuild == InitEmbedBuild /\ [][BuildMetabaseQuestionEmbed]_vars

(***************************************************************************)
(* The agent tool create_metabase_question_embed and the run context       *)
(***************************************************************************)
MaxExisting == 2

MaxEmbedCalls == 2

PyList(items) == [type |-> "list", items |-> items]

\* items of such a list: a dict, or something that is not a dict
DictItem(d) == [type |-> "dict", value |-> d]

\* the lists found under metadata["embeds"]: junk, entries of another kind
\* and metabase_question entries, two of them of one question
ExistingLists ==
    LET items ==
            { [type |-> "str", value |-> [tag |-> "junk"]],
              DictItem([kind |-> "chart", question_id |-> 1, tag |-> "chart"]),
              DictItem([kind |-> "metabase_question", question_id |-> 1, tag |-> "a"]),
              DictItem([kind |-> "metabase_question", question_id |-> 1, tag |-> "b"]),
              DictItem([kind |-> "metabase_question", question_id |-> 2, tag |-> "c"]) }
    IN  UNION {[1 .. k -> items] : k \in 0 .. MaxExisting}

\* the run contexts: metadata is None, or a dict whose "embeds" is missing
\* (dict.get gives None), a str or a list; session_state is None, or a dict
\* whose "metabase_embeds" is missing or a list left by earlier runs
RunContexts ==
    [set : {TRUE},
     metadata :
         {[is_none |-> TRUE, embeds |-> [type |-> "NoneType", items |-> << >>]],
          [is_none |-> FALSE, embeds |-> [type |-> "NoneType", items |-> << >>]],
          [is_none |-> FALSE, embeds |-> [type |-> "str", items |-> << >>]]}
         \union {[is_none |-> FALSE, embeds |-> PyList(l)] : l \in ExistingLists},
     session_state :
         {[is_none |-> TRUE, metabase_embeds |-> [type |-> "NoneType", items |-> << >>]],
          [is_none |-> FALSE, metabase_embeds |-> [type |-> "NoneType", items |-> << >>]],
          [is_none |-> FALSE, metabase_embeds |-> PyList(<< >>)],
          [is_none |-> FALSE,
           metabase_embeds |-> PyList(<< DictItem([kind |-> "metabase_question",
                                                   question_id |-> 2, tag |-> "c"]),
                                         DictItem([kind |-> "metabase_question",
                                                   question_id |-> 1, tag |-> "a"]) >>)]}]

\* _upsert_embed that only appends
UpsertEmbedAppending(existing, embed) ==
    PyList((IF existing.type = "list" THEN existing.items ELSE << >>)
           \o << DictItem(embed) >>)

\* _upsert_embed
upsert_embed(existing, embed) ==
    LET keep(item) ==
            /\ item.type = "dict"
            /\ \/ item.value.kind # "metabase_question"
               \/ item.value.question_id # embed.question_id
    IN  PyList((IF existing.type = "list" THEN SelectSeq(existing.items, keep) ELSE << >>)
               \o << DictItem(embed) >>)

\* _save_embed_in_context
save_embed_in_context(context, embed) ==
    [set |-> TRUE,
     metadata |-> [is_none |-> FALSE,
                   embeds |-> upsert_embed(context.metadata.embeds, embed)],
     session_state |-> [is_none |-> FALSE,
                        metabase_embeds |->
                            upsert_embed(context.session_state.metabase_embeds, embed)]]

\* the parts of a returned text: literal text and interpolated values
Literal(text) == [part |-> "literal", text |-> text]

Interpolated(n) == [part |-> "int", n |-> n]

\* datetime.fromtimestamp(expires_at, tz=timezone.utc).isoformat()
IsoFormat(timestamp) == [part |-> "isoformat", timestamp |-> timestamp]

NOT_PERMITTED_MESSAGE == << Literal("Embed not permitted for this question.") >>

FAILED_MESSAGE == << Literal("Failed to create Metabase embed metadata.") >>

\* create_metabase_question_embed whose handlers save a placeholder
CreateEmbedSavingOnFailure(context, env, time, question_id, title) ==
    LET handle(result) ==
            [raised |-> result.raised, embed |-> result.embed,
             run_context |->
                 save_embed_in_context(
                     context,
                     IF result.raised = "none" THEN result.embed
                     ELSE [kind |-> "metabase_question", question_id |-> question_id]),
             returned |->
                 IF result.raised = "none"
                 THEN << Literal("Prepared secure embed metadata for question "),
                         Interpolated(question_id),
                         Literal(". Token expires at "),
                         IsoFormat(result.embed.expires_at),
                         Literal(". Do not print signed URLs in plain response text.") >>
                 ELSE IF result.raised = "PermissionError" THEN NOT_PERMITTED_MESSAGE
                 ELSE FAILED_MESSAGE]
    IN  handle(build_metabase_question_embed(env, time, question_id, title))

\* create_metabase_question_embed(run_context, question_id, title) called at
\* int(time()) = time: the exception its handlers caught, the run context it
\* leaves and the text it returns
create_metabase_question_embed(context, env, time, question_id, title) ==
    LET handle(result) ==
            IF result.raised = "none"
            THEN [raised |-> "none", embed |-> result.embed,
                  run_context |-> save_embed_in_context(context, result.embed),
                  returned |-> << Literal("Prepared secure embed metadata for question "),
                                  Interpolated(question_id),
                                  Literal(". Token expires at "),
                                  IsoFormat(result.embed.expires_at),
                                  Literal(". Do not print signed URLs in plain response text.") >>]
            ELSE IF result.raised = "PermissionError"
            THEN [raised |-> result.raised, embed |-> NoEmbed, run_context |-> context,
                  returned |-> NOT_PERMITTED_MESSAGE]
            ELSE [raised |-> result.raised, embed |-> NoEmbed, run_context |-> context,
                  returned |-> FAILED_MESSAGE]
    IN  handle(build_metabase_question_embed(env, time, question_id, title))

\* the environments of the agent: the tests' configuration with an allowlist,
\* and the same without the embed secret
ToolEnvs ==
    { [set |-> TRUE,
       METABASE_SITE_URL |-> None,
       METABASE_URL |-> << "h", "t", "t", "p", ":", "/", "/", "m", "b", "2" >>,
       METABASE_EMBED_SECRET |-> secret,
       METABASE_EMBED_TTL_SECONDS |-> << "9", "0", "0" >>,
       METABASE_ALLOWED_QUESTION_IDS |-> << "1", ",", "2", ",", "3" >>,
       OS_SECURITY_KEY |-> None] : secret \in {None, << "s", "3" >>} }

\* an agent run about to call the tool on its run context
InitEmbedTool ==
    /\ embed_env \in ToolEnvs
    /\ now = 1000
    /\ run_context \in RunContexts
    /\ embed_call = [op |-> "tool", n |-> 0, question_id |-> 0, raised |-> "none",
                     returned |-> << >>, created |-> << >>, initial |-> run_context]
    /\ http = [op |-> "none"]
    /\ environ = << >>
    /\ main_pc = "tool"
    /\ analytics_registry = << >>
    /\ sql_tools_map = << >>
    /\ engines = << >>
    /\ created = {}
    /\ calls = [c \in Callers |-> IdleCall]
    /\ analytics_descriptions = << >>
    /\ config_warnings = << >>
    /\ sql = << >>
    /\ verdict = NoVerdict
    /\ catalog = NoCatalog
    /\ report = NoReport
    /\ gate = "unset"

\* the model calls create_metabase_question_embed; the clock advances between
\* calls
CreateMetabaseQuestionEmbed ==
    /\ main_pc = "tool" /\ embed_call.n < MaxEmbedCalls
    /\ \E question_id \in {0, 1, 2, 42} :
          \E result \in {create_metabase_question_embed(run_context, embed_env, now,
                                                        question_id, None)} :
              /\ run_context' = result.run_context
              /\ embed_call' = [embed_call EXCEPT
                                  !.n = @ + 1,
                                  !.question_id = question_id,
                                  !.raised = result.raised,
                                  !.returned = result.returned,
                                  !.created = IF result.raised = "none"
                                              THEN Append(@, result.embed)
                                              ELSE @]
    /\ now' = now + 1
    /\ UNCHANGED << embed_env, http >>
    /\ EmbedFrame

SpecEmbedTool == InitEmbedTool /\ [][CreateMetabaseQuestionEmbed]_vars

(***************************************************************************)
(* The embed-refresh endpoint: app/main.py                                 *)
(***************************************************************************)
\* a character outside ASCII (the byte 0xE9 of a header, decoded as latin-1)
NON_ASCII == "<e9>"

BEARER_PREFIX == << "B", "e", "a", "r", "e", "r", " " >>

\* hmac.compare_digest(a, b) on two str: TypeError when either holds a
\* character outside ASCII, else whether they are equal
CompareDigest(a, b) ==
    IF \E i \in 1 .. Len(a) : a[i] = NON_ASCII THEN [raised |-> "TypeError", equal |-> FALSE]
    ELSE IF \E i \in 1 .. Len(b) : b[i] = NON_ASCII
    THEN [raised |-> "TypeError", equal |-> FALSE]
    ELSE [raised |-> "none", equal |-> a = b]

\* _require_embed_refresh_auth on the Authorization header of the request
\* (empty when the header is absent): the exception raised, if any
RequireEmbedRefreshAuth(env, auth_header) ==
    LET os_security_key == IF env.OS_SECURITY_KEY = None THEN << >>
                           ELSE Strip(env.OS_SECURITY_KEY)
        provided_key == Strip(SubSeq(auth_header, Len(BEARER_PREFIX) + 1, Len(auth_header)))
        digest == CompareDigest(provided_key, os_security_key)
    IN  IF os_security_key = << >> THEN [raised |-> "none", status |-> 0]
        ELSE IF ~StartsWith(auth_header, BEARER_PREFIX)
        THEN [raised |-> "HTTPException", status |-> 401]
        ELSE IF digest.raised # "none" THEN [raised |-> digest.raised, status |-> 500]
        ELSE IF ~digest.equal THEN [raised |-> "HTTPException", status |-> 403]
        ELSE [raised |-> "none", status |-> 0]

\* POST /api/metabase/embed/refresh: the steps the request went through, the
\* status of the response and the embed it carries
RefreshMetabaseQuestionEmbed(env, time, auth_header, question_id, title) ==
    LET respond(auth, built) ==
            IF question_id <= 0
            THEN [steps |-> << "validate" >>, status |-> 422, embed |-> NoEmbed]
            ELSE IF auth.raised # "none"
            THEN [steps |-> << "validate", "auth" >>, status |-> auth.status,
                  embed |-> NoEmbed]
            ELSE IF ~IsMetabaseEmbeddingConfigured(env)
            THEN [steps |-> << "validate", "auth", "configured" >>, status |-> 503,
                  embed |-> NoEmbed]
            ELSE [steps |-> << "validate", "auth", "configured", "build" >>,
                  status |-> CASE built.raised = "none" -> 200
                               [] built.raised = "PermissionError" -> 403
                               [] built.raised = "ValueError" -> 400
                               [] OTHER -> 503,
                  embed |-> built.embed]
    IN  respond(RequireEmbedRefreshAuth(env, auth_header),
                build_metabase_question_embed(env, time, question_id, title))

\* the environments of the server: the embed settings of the agent, or a site
\* URL without a scheme, under each value of OS_SECURITY_KEY
ServerEnvs ==
    { [e EXCEPT !.OS_SECURITY_KEY = key,
                !.METABASE_URL = IF scheme THEN @ ELSE << "m", "b", "2" >>] :
          e \in ToolEnvs,
          key \in { None, << " " >>, << "k", "1" >>, << " ", "k", "1", " " >>,
                    << "k", NON_ASCII >> },
          scheme \in BOOLEAN }

\* the Authorization header of a request, as request.headers.get gives it
\* (surrounding whitespace is removed by the server)
AuthorizationHeaders ==
    { << >>,
      << "B", "e", "a", "r", "e", "r" >>,
      << "B", "e", "a", "r", "e", "r" >> \o << " ", "k", "1" >>,
      << "B", "e", "a", "r", "e", "r" >> \o << " ", " ", "k", "1" >>,
      << "B", "e", "a", "r", "e", "r" >> \o << " ", "k", "2" >>,
      << "B", "e", "a", "r", "e", "r" >> \o << " ", "k", NON_ASCII >>,
      << "B", "e", "a", "r", "e", "r" >> \o << " ", "k", "1", NON_ASCII >>,
      << "b", "e", "a", "r", "e", "r", " ", "k", "1" >>,
      << "B", "a", "s", "i", "c", " ", "k", "1" >> }

\* a server process waiting for a request
InitRefresh ==
    /\ embed_env \in ServerEnvs
    /\ now \in Times
    /\ run_context = [set |-> FALSE]
    /\ embed_call = [op |-> "none"]
    /\ http = [op |-> "none"]
    /\ environ = << >>
    /\ main_pc = "serving"
    /\ analytics_registry = << >>
    /\ sql_tools_map = << >>
    /\ engines = << >>
    /\ created = {}
    /\ calls = [c \in Callers |-> IdleCall]
    /\ analytics_descriptions = << >>
    /\ config_warnings = << >>
    /\ sql = << >>
    /\ verdict = NoVerdict
    /\ catalog = NoCatalog
    /\ report = NoReport
    /\ gate = "unset"

\* a client posts to /api/metabase/embed/refresh
PostEmbedRefresh ==
    /\ main_pc = "serving" /\ http = [op |-> "none"]
    /\ \E auth_header \in AuthorizationHeaders, question_id \in {0, 1, 42} :
          \E response \in {RefreshMetabaseQuestionEmbed(embed_env, now, auth_header,
                                                         question_id, None)} :
              http' = [op |-> "refresh", authorization |-> auth_header,
                       question_id |-> question_id, steps |-> response.steps,
                       status |-> response.status, embed |-> response.embed]
    /\ UNCHANGED << embed_env, now, run_context, embed_call >>
    /\ EmbedFrame

SpecRefresh == InitRefresh /\ [][PostEmbedRefresh]_vars

(***************************************************************************)
(* Properties                                                              *)
(***************************************************************************)
\* C1: no write reaches a backend through run_sql_query: a query text that
\* holds a write/DDL keyword as a whole word in any position (leading, after
\* a ';', inside parentheses, after a leading comment) is never dispatched.
C1_NoWriteReachesBackend ==
    \A c \in Callers :
        (calls[c].op = "run_sql_query" /\ DestructiveHits(calls[c].query) # {})
            => calls[c].backend = 0

\* C2: when the first whitespace-delimited token of the query is, ignoring
\* case, a write keyword, run_sql_query ends raising WriteRejected, and the
\* call neither resolves a database nor calls a backend, before or after.
C2_StrictGateOrdering ==
    \A c \in Callers :
        LET t == LStrip(calls[c].query)
            leading == \E k \in WRITE_KEYWORDS :
                          /\ StartsWith(Lower(t), k)
                          /\ (Len(t) = Len(k) \/ IsSpace(t[Len(k) + 1]))
        IN  (calls[c].op = "run_sql_query" /\ leading) =>
                /\ calls[c].backend = 0
                /\ calls[c].handle = 0
                /\ \/ calls[c].pc = "gate"
                   \/ /\ calls[c].pc = "done"
                      /\ calls[c].kind = "raised"
                      /\ calls[c].error = "WriteRejected"

\* C2 witness: a query with a mixed-case leading write keyword and an
\* unknown database name was rejected
C2_Witness ==
    /\ calls[1].pc = "done"
    /\ calls[1].error = "WriteRejected"
    /\ StartsWith(calls[1].query, << " ", "U", "p", "d", "a", "t", "e" >>)
    /\ calls[1].database = << "n", "o", "p", "e" >>

\* C3 as stated: with exactly one registered database, resolving with no
\* name and with any supplied name both succeed and give that entry.
C3_SingleDatabaseAnyName ==
    \A c \in Callers :
        (/\ Len(analytics_registry) = 1
         /\ \/ calls[c].pc = "backend"
            \/ calls[c].pc = "done" /\ calls[c].error # "WriteRejected")
            => /\ calls[c].error # "UnknownDatabase"
               /\ calls[c].name = analytics_registry[1].name

\* C3 amended: with exactly one registered database, resolving with an
\* absent or empty name succeeds and gives that entry; resolving with a
\* supplied name succeeds, with that entry, exactly when the lower-cased
\* name is the registered one, and fails with UnknownDatabase otherwise.
C3_SingleDatabaseDefault ==
    \A c \in Callers :
        (/\ Len(analytics_registry) = 1
         /\ \/ calls[c].pc = "backend"
            \/ calls[c].pc = "done" /\ calls[c].error # "WriteRejected")
            => LET d == calls[c].database
                   matches == \/ d = None
                              \/ d = << >>
                              \/ Lower(d) = analytics_registry[1].name
               IN  /\ matches =>
                        /\ calls[c].error # "UnknownDatabase"
                        /\ calls[c].name = analytics_registry[1].name
                        /\ \E h \in created :
                              /\ h.id = calls[c].handle
                              /\ h.url = analytics_registry[1].url
                   /\ ~matches =>
                        /\ calls[c].pc = "done"
                        /\ calls[c].error = "UnknownDatabase"

\* C3 witness: one registered database, list_tables without a database
\* argument resolved it
C3_Witness ==
    /\ Len(analytics_registry) = 1
    /\ calls[1].op = "list_tables"
    /\ calls[1].database = None
    /\ calls[1].pc = "backend"
    /\ calls[1].name = analytics_registry[1].name

C5_UnknownListsSorted ==
    \A c \in Callers :
        (/\ Len(analytics_registry) >= 2
         /\ calls[c].database \notin {None, << >>}
         /\ NormalizeName(calls[c].database) \notin Elems(Keys(analytics_registry))
         /\ \/ calls[c].pc = "backend"
            \/ calls[c].pc = "done" /\ calls[c].error # "WriteRejected")
            => /\ calls[c].pc = "done"
               /\ calls[c].error = "UnknownDatabase"
               /\ Elems(calls[c].available) = Elems(Keys(analytics_registry))
               /\ Len(calls[c].available) = Len(analytics_registry)
               /\ IsSorted(calls[c].available)

\* C5 amended: with two or more registered databases and a requested name
\* that is not registered, resolution fails with UnknownDatabase listing
\* every registered name exactly once, in the order the names were
\* discovered (the registry's insertion order), which need not be sorted.
C5_UnknownListsDiscoveryOrder ==
    \A c \in Callers :
        (/\ Len(analytics_registry) >= 2
         /\ calls[c].database \notin {None, << >>}
         /\ NormalizeName(calls[c].database) \notin Elems(Keys(analytics_registry))
         /\ \/ calls[c].pc = "backend"
            \/ calls[c].pc = "done" /\ calls[c].error # "WriteRejected")
            => /\ calls[c].pc = "done"
               /\ calls[c].error = "UnknownDatabase"
               /\ calls[c].name = Lower(calls[c].database)
               /\ Len(calls[c].available) = Len(analytics_registry)
               /\ \A i \in 1 .. Len(analytics_registry) :
                     calls[c].available[i] = analytics_registry[i].name
               /\ \A i, j \in 1 .. Len(calls[c].available) :
                     i # j => calls[c].available[i] # calls[c].available[j]

\* C5 witness: the registry was discovered as sales, main (not sorted) and a
\* call naming an unregistered database failed
C5_Witness ==
    /\ Len(analytics_registry) = 2
    /\ ~IsSorted(Keys(analytics_registry))
    /\ calls[1].database = << "n", "o", "p", "e" >>
    /\ calls[1].pc = "done"
    /\ calls[1].error = "UnknownDatabase"
    /\ calls[1].available = Keys(analytics_registry)

\* C6: for every registered name n, resolving with a variant of n that
\* differs only in letter case or in leading/trailing whitespace succeeds and
\* yields the same backend as resolving with n itself.
C6_VariantsResolveAlike ==
    \A c \in Callers :
        (/\ calls[c].database # None
         /\ NormalizeName(calls[c].database) \in Elems(Keys(analytics_registry))
         /\ \/ calls[c].pc = "backend"
            \/ calls[c].pc = "done" /\ calls[c].error # "WriteRejected")
            => /\ calls[c].error # "UnknownDatabase"
               /\ calls[c].name = NormalizeName(calls[c].database)

\* C7: each of the four operations turns a database-resolution failure into
\* text returned as its result; none lets it propagate as an exception.
C7_ResolutionFailureReturned ==
    \A c \in Callers :
        (calls[c].pc = "done" /\ calls[c].error = "UnknownDatabase")
            => calls[c].kind = "returned"

\* C8: a call of list_tables, describe_table, run_sql_query or
\* introspect_schema that ends in a database-resolution failure has made no
\* backend call: none before the resolution step, none when the failure is
\* reported.
C8_NoBackendBeforeResolutionFailure ==
    \A c \in Callers :
        (\/ calls[c].pc \in {"gate", "resolve"}
         \/ calls[c].pc = "done" /\ calls[c].error = "UnknownDatabase")
            => calls[c].backend = 0

\* C8 witness: introspect_schema ended in a resolution failure
C8_Witness ==
    /\ calls[1].op = "introspect_schema"
    /\ calls[1].pc = "done"
    /\ calls[1].error = "UnknownDatabase"
    /\ calls[1].backend = 0

C11_RegistryNeverEmpty ==
    main_pc # "registry" =>
        LET raw(i) == SubSeq(environ[i].key, Len(ANALYTICS_PREFIX) + 1, Len(environ[i].key))
            explicit == {i \in 1 .. Len(environ) :
                            /\ StartsWith(environ[i].key, ANALYTICS_PREFIX)
                            /\ ~EndsWith(environ[i].key, ANALYTICS_DESC_SUFFIX)
                            /\ environ[i].value # ""
                            /\ Lower(Strip(raw(i))) # << >>}
            names == {Lower(Strip(raw(i))) : i \in explicit}
        IN  /\ analytics_registry # << >>
            /\ explicit = {} =>
                  analytics_registry =
                      << [name |-> IMPLICIT_DEFAULT_NAME, url |-> internal_db_url] >>
            /\ explicit # {} =>
                  /\ Elems(Keys(analytics_registry)) = names
                  /\ Len(analytics_registry) = Cardinality(names)
                  /\ \A k \in 1 .. Len(analytics_registry) :
                        \E i \in explicit :
                            /\ Lower(Strip(raw(i))) = analytics_registry[k].name
                            /\ environ[i].value = analytics_registry[k].url
                            /\ \A j \in explicit :
                                  Lower(Strip(raw(j))) = analytics_registry[k].name => j <= i

\* C11 witness: no explicit database setting (only a description and an
\* unrelated variable), and the registry is the implicit default
C11_Witness ==
    /\ main_pc # "registry"
    /\ Len(environ) = 2
    /\ analytics_registry = << [name |-> IMPLICIT_DEFAULT_NAME, url |-> internal_db_url] >>

\* C12 as stated: every registry key is normalized and non-empty; a
\* configured entry whose name is empty after normalization is discarded with
\* a warning and never inserted; names that normalize to the same string
\* yield a single entry.
C12_EmptyNameWarned ==
    main_pc # "registry" =>
        LET raw(i) == SubSeq(environ[i].key, Len(ANALYTICS_PREFIX) + 1, Len(environ[i].key))
            blank == {i \in 1 .. Len(environ) :
                         /\ StartsWith(environ[i].key, ANALYTICS_PREFIX)
                         /\ ~EndsWith(environ[i].key, ANALYTICS_DESC_SUFFIX)
                         /\ environ[i].value # ""
                         /\ Lower(Strip(raw(i))) = << >>}
        IN  /\ \A k \in 1 .. Len(analytics_registry) :
                  /\ analytics_registry[k].name # << >>
                  /\ analytics_registry[k].name = Lower(Strip(analytics_registry[k].name))
            /\ \A k, l \in 1 .. Len(analytics_registry) :
                  k # l => analytics_registry[k].name # analytics_registry[l].name
            /\ blank # {} => config_warnings # << >>

\* C12 amended: every registry key is normalized (trimmed, lower-cased) and
\* non-empty; a configured entry whose name is empty after normalization is
\* discarded silently (no warning is logged) and never inserted; names that
\* normalize to the same string yield a single entry.
C12_KeysNormalized ==
    main_pc # "registry" =>
        /\ \A k \in 1 .. Len(analytics_registry) :
              /\ analytics_registry[k].name # << >>
              /\ analytics_registry[k].name = Lower(Strip(analytics_registry[k].name))
        /\ \A k, l \in 1 .. Len(analytics_registry) :
              k # l => analytics_registry[k].name # analytics_registry[l].name
        /\ config_warnings = << >>

\* C12 witness: a setting with a blank name and two settings whose names both
\* normalize to "main" gave a registry of the single entry "main"
C12_Witness ==
    /\ main_pc # "registry"
    /\ Len(environ) = 3
    /\ \A i \in 1 .. 3 : StartsWith(environ[i].key, ANALYTICS_PREFIX) /\ environ[i].value # ""
    /\ \E i \in 1 .. 3 : environ[i].key = ANALYTICS_PREFIX \o << " " >>
    /\ \E i \in 1 .. 3 : environ[i].key = ANALYTICS_PREFIX \o << " ", "M", "a", "i", "n" >>
    /\ \E i \in 1 .. 3 : environ[i].key = ANALYTICS_PREFIX \o << "M", "A", "I", "N" >>
    /\ Keys(analytics_registry) = << << "m", "a", "i", "n" >> >>

\* C13: registry and descriptions are built independently from the same
\* configuration: a description setting for n gives an entry only in the
\* descriptions (keyed by the normalized n, holding the value of the last such
\* setting) and never a registry entry; a database setting never gives a
\* descriptions entry; a registered name without a description setting has no
\* descriptions entry.
C13_DescriptionsIndependent ==
    main_pc \notin {"registry", "descriptions"} =>
        LET key(i) == environ[i].key
            dname(i) == Lower(Strip(SubSeq(key(i), Len(ANALYTICS_PREFIX) + 1,
                                           Len(key(i)) - Len(ANALYTICS_DESC_SUFFIX))))
            rname(i) == Lower(Strip(SubSeq(key(i), Len(ANALYTICS_PREFIX) + 1, Len(key(i)))))
            descs == {i \in 1 .. Len(environ) :
                         /\ StartsWith(key(i), ANALYTICS_PREFIX)
                         /\ EndsWith(key(i), ANALYTICS_DESC_SUFFIX)
                         /\ environ[i].value # ""
                         /\ dname(i) # << >>}
            dbs == {i \in 1 .. Len(environ) :
                       /\ StartsWith(key(i), ANALYTICS_PREFIX)
                       /\ ~EndsWith(key(i), ANALYTICS_DESC_SUFFIX)
                       /\ environ[i].value # ""
                       /\ rname(i) # << >>}
        IN  /\ Elems(Keys(analytics_descriptions)) = {dname(i) : i \in descs}
            /\ Len(analytics_descriptions) = Cardinality({dname(i) : i \in descs})
            /\ \A k \in 1 .. Len(analytics_descriptions) :
                  \E i \in descs :
                      /\ dname(i) = analytics_descriptions[k].name
                      /\ environ[i].value = analytics_descriptions[k].desc
                      /\ \A j \in descs : dname(j) = dname(i) => j <= i
            /\ \A k \in 1 .. Len(analytics_registry) :
                  \/ \E i \in dbs : rname(i) = analytics_registry[k].name
                  \/ dbs = {} /\ analytics_registry[k].name = IMPLICIT_DEFAULT_NAME

\* C13 witness: databases main and sales and a description of sales gave a
\* registry of two entries and the descriptions {sales: "sales data"}
C13_Witness ==
    /\ main_pc = "sql_tools"
    /\ Elems(Keys(analytics_registry)) = {<< "m", "a", "i", "n" >>, << "s", "a", "l", "e", "s" >>}
    /\ analytics_descriptions = << [name |-> << "s", "a", "l", "e", "s" >>, desc |-> "sales data"] >>

\* C14: the registry used by the tools is read-only after construction: no
\* step of a list_tables, describe_table, run_sql_query or introspect_schema
\* call, successful or failing, adds, removes or re-targets an entry of the
\* name -> backend maps captured when the tools were created.
C14_RegistryReadOnly ==
    [][main_pc = "serving" =>
          /\ analytics_registry' = analytics_registry
          /\ sql_tools_map' = sql_tools_map
          /\ engines' = engines
          /\ created' = created]_vars

\* C14 witness: a call on an unregistered name has failed and both maps still
\* hold exactly the two registered names
C14_Witness ==
    /\ main_pc = "serving"
    /\ calls[1].pc = "done" /\ calls[1].error = "UnknownDatabase"
    /\ calls[1].name \notin Elems(Keys(analytics_registry))
    /\ Len(analytics_registry) = 2
    /\ Keys(sql_tools_map) = Keys(analytics_registry)
    /\ Keys(engines) = Keys(analytics_registry)

\* C15: check_query_safety returns ok=false exactly when the statement is
\* empty after whitespace collapsing or holds a whole-word, case-insensitive
\* occurrence of a write/DDL keyword anywhere; in the keyword case the single
\* error names each matched keyword once, lower-cased, in sorted order.
C15_AdvisoryVerdict ==
    verdict.set =>
        LET n == Len(sql)
            \* sql[i .. j] is a whole word
            word(i, j) == /\ i <= j /\ j <= n
                          /\ \A k \in i .. j : IsWordChar(sql[k])
                          /\ (i = 1 \/ ~IsWordChar(sql[i - 1]))
                          /\ (j = n \/ ~IsWordChar(sql[j + 1]))
            \* the whole word w stands at i
            at(w, i) == word(i, i + Len(w) - 1) /\ Lower(SubSeq(sql, i, i + Len(w) - 1)) = w
            matched == {w \in WRITE_KEYWORDS : \E i \in 1 .. n : at(w, i)}
            blank == \A i \in 1 .. Len(sql) : IsSpace(sql[i])
        IN  /\ verdict.ok = ~(blank \/ matched # {})
            /\ blank => verdict.errors = << EMPTY_ERROR >>
            /\ ~blank /\ matched = {} => verdict.errors = << >>
            /\ ~blank /\ matched # {} =>
                  /\ Len(verdict.errors) = 1
                  /\ \E l \in [1 .. Cardinality(matched) -> matched] :
                        /\ Elems(l) = matched
                        /\ \A i \in 1 .. Len(l) - 1 : StrLess(l[i], l[i + 1])
                        /\ verdict.errors[1] =
                              DESTRUCTIVE_ERROR_HEAD \o Join(<< ",", " " >>, l) \o << "." >>

\* C15 witness: "Update drop" was checked and the error names drop, then update
C15_Witness ==
    /\ verdict.set
    /\ sql = << "U", "p", "d", "a", "t", "e", " ", "d", "r", "o", "p" >>
    /\ ~verdict.ok
    /\ verdict.errors =
          << DESTRUCTIVE_ERROR_HEAD
             \o << "d", "r", "o", "p", ",", " ", "u", "p", "d", "a", "t", "e", "." >> >>

\* C16: every statement that contains `select *` gets the avoid-SELECT-*
\* warning, including statements that do not begin with select (one that
\* begins with WITH or with an opening parenthesis).
C16_SelectStarAlwaysWarned ==
    verdict.set =>
        LET star == \E i \in 1 .. Len(sql), a \in 1 .. Len(sql) :
                        /\ i + Len(SELECT_WORD) <= a
                        /\ Lower(SubSeq(sql, i, i + Len(SELECT_WORD) - 1)) = SELECT_WORD
                        /\ (i = 1 \/ ~IsWordChar(sql[i - 1]))
                        /\ \A k \in i + Len(SELECT_WORD) .. a - 1 : IsSpace(sql[k])
                        /\ i + Len(SELECT_WORD) <= a - 1
                        /\ sql[a] = "*"
        IN  star => SELECT_STAR_WARNING \in Elems(verdict.warnings)

\* C17: a statement gets the missing-LIMIT warning exactly when it begins
\* with select (ignoring case) and holds no `limit <n>` clause; a single
\* select statement with a `limit <n>` clause, explicit columns and no write
\* keyword yields ok=true and no warning.
C17_MissingLimitWarning ==
    verdict.set =>
        LET n == Len(sql)
            \* sql[i .. j] is a whole word
            word(i, j) == /\ i <= j /\ j <= n
                          /\ \A k \in i .. j : IsWordChar(sql[k])
                          /\ (i = 1 \/ ~IsWordChar(sql[i - 1]))
                          /\ (j = n \/ ~IsWordChar(sql[j + 1]))
            \* the whole word w stands at i
            at(w, i) == word(i, i + Len(w) - 1) /\ Lower(SubSeq(sql, i, i + Len(w) - 1)) = w
            \* whitespace, and at least one, fills sql[i .. j]
            gap(i, j) == i <= j /\ \A k \in i .. j : IsSpace(sql[k])
            begins == \E i \in 1 .. n : at(SELECT_WORD, i) /\ \A k \in 1 .. i - 1 : IsSpace(sql[k])
            limit == \E i \in 1 .. n :
                         /\ at(LIMIT_WORD, i)
                         /\ \E a \in i + Len(LIMIT_WORD) + 1 .. n :
                               /\ gap(i + Len(LIMIT_WORD), a - 1)
                               /\ \E b \in a .. n :
                                     word(a, b) /\ \A k \in a .. b : IsDigit(sql[k])
            star == \E i \in 1 .. n :
                         /\ at(SELECT_WORD, i)
                         /\ \E a \in i + Len(SELECT_WORD) + 1 .. n :
                               gap(i + Len(SELECT_WORD), a - 1) /\ sql[a] = "*"
            keyword == \E w \in WRITE_KEYWORDS : \E i \in 1 .. n : at(w, i)
        IN  /\ LIMIT_WARNING \in Elems(verdict.warnings) <=> (begins /\ ~limit)
            /\ (begins /\ limit /\ ~star /\ ~keyword /\ ";" \notin Elems(sql)) =>
                  verdict.ok /\ verdict.warnings = << >>

\* C17 witness: "SELECT x\nlimit 1" was checked: ok, no warning
C17_Witness ==
    /\ verdict.set
    /\ sql = << "S", "E", "L", "E", "C", "T", " ", "x", "\n", "l", "i", "m", "i", "t", " ", "1" >>
    /\ verdict.ok
    /\ verdict.warnings = << >>

\* C18 as stated: the multiple-statements warning is given exactly when a
\* ';' occurs before the final trailing ';' (if any) of the statement; it is
\* only a warning; one trailing ';' gives no warning.
C18_SemicolonBeforeFinal ==
    verdict.set =>
        LET t == Strip(sql)
            body == IF t # << >> /\ t[Len(t)] = ";" THEN SubSeq(t, 1, Len(t) - 1) ELSE t
        IN  MULTIPLE_WARNING \in Elems(verdict.warnings) <=> ";" \in Elems(body)

\* C18 amended: the multiple-statements warning is given exactly when a ';'
\* of the trimmed statement is followed, somewhere later, by a character
\* other than ';' (all trailing ';' are ignored, not only the last); it is
\* only a warning, so a statement that is not blank and holds no write
\* keyword still yields ok=true; a statement whose only ';' are trailing
\* gets no such warning.
C18_SemicolonBeforeOtherText ==
    verdict.set =>
        LET t == Strip(sql)
            n == Len(sql)
            \* sql[i .. j] is a whole word
            word(i, j) == /\ i <= j /\ j <= n
                          /\ \A k \in i .. j : IsWordChar(sql[k])
                          /\ (i = 1 \/ ~IsWordChar(sql[i - 1]))
                          /\ (j = n \/ ~IsWordChar(sql[j + 1]))
            keyword == \E w \in WRITE_KEYWORDS : \E i \in 1 .. n :
                          /\ word(i, i + Len(w) - 1)
                          /\ Lower(SubSeq(sql, i, i + Len(w) - 1)) = w
        IN  /\ MULTIPLE_WARNING \in Elems(verdict.warnings) <=>
                  \E i \in 1 .. Len(t), j \in 1 .. Len(t) :
                      i < j /\ t[i] = ";" /\ t[j] # ";"
            /\ (t # << >> /\ ~keyword) => verdict.ok

\* C18 witness: "x;x" was checked: ok, with the multiple-statements warning
C18_Witness ==
    /\ verdict.set
    /\ sql = << "x", ";", "x" >>
    /\ verdict.ok
    /\ verdict.warnings = << MULTIPLE_WARNING >>

\* C19: listing tables (list_tables, and introspect_schema without a table
\* name and without a schema filter) never includes a system schema of the
\* backend, whatever schema names the catalog reports and in whatever letter
\* case; a system schema appears only when the schema filter names it.
C19_NoSystemSchemaListed ==
    (/\ report.op \in {"list_tables", "introspect_schema"}
     /\ report.table = None
     /\ report.error = "none") =>
        \A i \in 1 .. Len(report.listing) :
            LET s == report.listing[i].schema
            IN  Lower(s) \in SQL_EXCLUDED_SCHEMAS \union INTROSPECT_EXCLUDED_SCHEMAS =>
                    report.op = "introspect_schema" /\ report.schema = s

\* C20: describing a table that the given (or default) schema of the resolved
\* database does not hold fails with TableNotFound listing the tables of
\* that schema in sorted order, for describe_table and for introspect_schema
\* with a table name, and no column or sample query is issued for it.
C20_MissingTableNotFound ==
    (/\ report.op \in {"describe_table", "introspect_schema"}
     /\ report.table # None
     /\ report.error \notin {"UnknownDatabase", "BackendError"}) =>
        LET s == IF report.schema = None THEN DEFAULT_SCHEMA ELSE report.schema
            held == UNION {Elems(catalog.schemas[i].tables) :
                              i \in {j \in 1 .. Len(catalog.schemas) :
                                        catalog.schemas[j].name = s}}
        IN  report.table \notin held =>
                /\ report.error = "TableNotFound"
                /\ Elems(report.available) = held
                /\ Len(report.available) = Cardinality(held)
                /\ \A i \in 1 .. Len(report.available) - 1 :
                      StrLess(report.available[i], report.available[i + 1])
                /\ report.column_queries = 0
                /\ report.sample_queries = 0

\* C21: row counts in the table listing are best-effort: for any subset of
\* tables whose count query fails, the listing still completes and holds
\* every table of every scanned non-empty schema exactly once, the failing
\* tables without a count and the others with one.
C21_CountsBestEffort ==
    (/\ report.op = "introspect_schema"
     /\ report.table = None
     /\ report.error \notin {"UnknownDatabase", "BackendError"}) =>
        LET filter == report.schema # None /\ report.schema # << >>
            scanned == {i \in 1 .. Len(catalog.schemas) :
                           /\ catalog.schemas[i].tables # << >>
                           /\ IF filter THEN catalog.schemas[i].name = report.schema
                              ELSE catalog.schemas[i].name \notin INTROSPECT_EXCLUDED_SCHEMAS}
        IN  /\ report.kind = "returned" /\ report.error = "none"
            /\ Len(report.listing) = Cardinality(scanned)
            /\ \A i \in scanned :
                  \E k \in 1 .. Len(report.listing) :
                      /\ report.listing[k].schema = catalog.schemas[i].name
                      /\ Len(report.listing[k].tables) = Len(catalog.schemas[i].tables)
                      /\ \A t \in Elems(catalog.schemas[i].tables) :
                            \E j \in 1 .. Len(report.listing[k].tables) :
                                /\ report.listing[k].tables[j].name = t
                                /\ report.listing[k].tables[j].counted = (t \notin report.failing)

\* C22: in the sample rows a cell renders as the marker NULL if and only if
\* its value is null; every other value (0, false and the empty string
\* included) renders as its string form cut to at most 30 characters,
\* exactly 30 when the string form is longer than 30.
C22_NullMarkerOnlyForNull ==
    (report.op = "introspect_schema" /\ report.table # None /\ report.rows # << >>) =>
        \A i \in 1 .. Len(report.rows) : \A j \in 1 .. Len(report.rows[i]) :
            LET v == report.rows[i][j]
                out == report.rendered[i][j]
            IN  /\ out = << "N", "U", "L", "L" >> <=> v.type = "NoneType"
                /\ v.type # "NoneType" =>
                      /\ Len(out) <= 30
                      /\ out = SubSeq(StrOf(v), 1, Len(out))
                      /\ Len(StrOf(v)) > 30 => Len(out) = 30
                      /\ Len(StrOf(v)) <= 30 => out = StrOf(v)

\* C23: a backend failure of any kind during the primary requested operation
\* (catalog enumeration or describe in list_tables, describe_table and
\* introspect_schema, the sample query) is caught and returned to the caller
\* as a message: no tool call ends with an exception escaping to the caller.
C23_BackendFailureReturned ==
    (/\ report.op \in {"list_tables", "describe_table", "introspect_schema"}
     /\ report.error \in {"BackendError", "NoSuchTableError", "SampleError"}) =>
        report.kind = "returned"

\* C27: the strict gate is never stricter than the advisory check: every
\* statement that _reject_writes rejects (its first token is a write keyword)
\* is given ok=false by check_query_safety, and both use the same vocabulary
\* of nine keywords.
C27_GateImpliesAdvisory ==
    /\ WRITE_KEYWORDS = DESTRUCTIVE_KEYWORDS
    /\ Cardinality(WRITE_KEYWORDS) = 9
    /\ (verdict.set /\ gate = "rejected") => ~verdict.ok

\* C27 witness: "Update x" was rejected by the gate and given ok=false
C27_Witness ==
    /\ sql = << "U", "p", "d", "a", "t", "e", " ", "x" >>
    /\ gate = "rejected"
    /\ verdict.set /\ ~verdict.ok

\* C24: the lifetime of a signed embed is always clamped: for every integer
\* value of METABASE_EMBED_TTL_SECONDS (below 60, within range, above 3600,
\* unset or blank), expires_at minus the signing time lies in [60, 3600],
\* equals the configured value when that value is in range, and equals 900
\* when the setting is unset or blank.
C24_LifetimeClamped ==
    (embed_call.op = "build" /\ embed_call.raised = "none") =>
        LET raw == embed_env.METABASE_EMBED_TTL_SECONDS
            blank == raw = None \/ Strip(raw) = << >>
            lifetime == embed_call.embed.expires_at - embed_call.at
        IN  /\ 60 <= lifetime /\ lifetime <= 3600
            /\ blank => lifetime = 900
            /\ (~blank /\ ParseInt(raw).n >= 60 /\ ParseInt(raw).n <= 3600) =>
                  lifetime = ParseInt(raw).n
            /\ (~blank /\ ParseInt(raw).n < 60) => lifetime = 60
            /\ (~blank /\ ParseInt(raw).n > 3600) => lifetime = 3600

\* C24 witness: an embed signed at 5000 under a TTL setting of 99999 expires
\* at 8600
C24_Witness ==
    /\ embed_call.op = "build" /\ embed_call.raised = "none"
    /\ embed_env.METABASE_EMBED_TTL_SECONDS = << "9", "9", "9", "9", "9" >>
    /\ embed_call.at = 5000
    /\ embed_call.embed.expires_at = 8600

\* C25: when METABASE_ALLOWED_QUESTION_IDS names at least one id (it parses
\* to a non-empty allowlist), build_metabase_question_embed signs an embed
\* only for a question id in that list and raises PermissionError for every
\* other positive id, without producing a token; when the allowlist is unset
\* or has no ids, every positive id is permitted.
C25_AllowlistEnforced ==
    (embed_call.op = "build" /\ embed_call.question_id > 0) =>
        LET raw == embed_env.METABASE_ALLOWED_QUESTION_IDS
            tokens == IF raw = None THEN << >> ELSE SplitOn(raw, ",")
            items == {Strip(tokens[i]) : i \in 1 .. Len(tokens)} \ {<< >>}
            wellformed == \A t \in items : ParseInt(t).raised = "none" /\ ParseInt(t).n > 0
            listed == {ParseInt(t).n : t \in items}
            configured ==
                /\ embed_env.METABASE_EMBED_SECRET = << "s", "3" >>
                /\ embed_env.METABASE_SITE_URL # << "m", "b", ".", "e", "x", "a", "m", "p", "l", "e" >>
                /\ embed_env.METABASE_SITE_URL # None \/ embed_env.METABASE_URL # None
                /\ embed_env.METABASE_EMBED_TTL_SECONDS \notin
                      { << "a", "b", "c" >>, << "1", ".", "5" >> }
        IN  wellformed =>
              /\ (listed # {} /\ embed_call.raised = "none") => embed_call.question_id \in listed
              /\ (listed # {} /\ embed_call.question_id \notin listed) =>
                    embed_call.raised = "PermissionError" /\ embed_call.embed = NoEmbed
              /\ listed = {} => embed_call.raised # "PermissionError"
              /\ (configured /\ (listed = {} \/ embed_call.question_id \in listed)) =>
                    /\ embed_call.raised = "none"
                    /\ embed_call.embed.question_id = embed_call.question_id
                    /\ embed_call.embed.iframe_url[3].payload.resource.question
                          = embed_call.question_id

\* C25 witness: under the allowlist "1,2,3" question 42 was refused with
\* PermissionError
C25_Witness ==
    /\ embed_call.op = "build" /\ embed_call.question_id = 42
    /\ embed_env.METABASE_ALLOWED_QUESTION_IDS = << "1", ",", "2", ",", "3" >>
    /\ embed_call.raised = "PermissionError"

\* C26 as stated: build_metabase_question_embed raises RuntimeError whenever
\* the embed secret is missing or blank, the site URL is missing or does not
\* start with http:// or https://, the allowlist contains a non-integer or
\* non-positive item, or the TTL setting is not an integer.
C26_InvalidConfigurationRaisesRuntimeError ==
    embed_call.op = "build" =>
        LET secret == embed_env.METABASE_EMBED_SECRET
            site == IF embed_env.METABASE_SITE_URL # None /\ Strip(embed_env.METABASE_SITE_URL) # << >>
                    THEN Strip(embed_env.METABASE_SITE_URL)
                    ELSE IF embed_env.METABASE_URL # None THEN Strip(embed_env.METABASE_URL)
                    ELSE << >>
            rawlist == embed_env.METABASE_ALLOWED_QUESTION_IDS
            tokens == IF rawlist = None THEN << >> ELSE SplitOn(rawlist, ",")
            items == {Strip(tokens[i]) : i \in 1 .. Len(tokens)} \ {<< >>}
            ttl == embed_env.METABASE_EMBED_TTL_SECONDS
            invalid ==
                \/ secret = None \/ Strip(secret) = << >>
                \/ site = << >>
                \/ ~(\E scheme \in URL_SCHEMES : StartsWith(site, scheme))
                \/ \E t \in items : ParseInt(t).raised # "none" \/ ParseInt(t).n <= 0
                \/ ttl # None /\ Strip(ttl) # << >> /\ ParseInt(ttl).raised # "none"
        IN  invalid => embed_call.raised = "RuntimeError" /\ embed_call.embed = NoEmbed

\* C26 (amended): build_metabase_question_embed never returns an embed under
\* invalid configuration (secret missing or blank, site URL missing or
\* without http:// or https://, allowlist with a non-integer or non-positive
\* item, TTL setting not an integer): it raises ValueError when the question
\* id is not positive, PermissionError when the allowlist is well formed,
\* names an id and does not name the question id, and RuntimeError otherwise.
C26_InvalidConfigurationNeverSigns ==
    embed_call.op = "build" =>
        LET secret == embed_env.METABASE_EMBED_SECRET
            site == IF embed_env.METABASE_SITE_URL # None /\ Strip(embed_env.METABASE_SITE_URL) # << >>
                    THEN Strip(embed_env.METABASE_SITE_URL)
                    ELSE IF embed_env.METABASE_URL # None THEN Strip(embed_env.METABASE_URL)
                    ELSE << >>
            rawlist == embed_env.METABASE_ALLOWED_QUESTION_IDS
            tokens == IF rawlist = None THEN << >> ELSE SplitOn(rawlist, ",")
            items == {Strip(tokens[i]) : i \in 1 .. Len(tokens)} \ {<< >>}
            badlist == \E t \in items : ParseInt(t).raised # "none" \/ ParseInt(t).n <= 0
            listed == {ParseInt(t).n : t \in items}
            ttl == embed_env.METABASE_EMBED_TTL_SECONDS
            invalid ==
                \/ secret = None \/ Strip(secret) = << >>
                \/ site = << >>
                \/ ~(\E scheme \in URL_SCHEMES : StartsWith(site, scheme))
                \/ badlist
                \/ ttl # None /\ Strip(ttl) # << >> /\ ParseInt(ttl).raised # "none"
            refused == ~badlist /\ listed # {} /\ embed_call.question_id \notin listed
        IN  invalid =>
              /\ embed_call.embed = NoEmbed
              /\ embed_call.raised =
                    IF embed_call.question_id <= 0 THEN "ValueError"
                    ELSE IF refused THEN "PermissionError"
                    ELSE "RuntimeError"

\* C26 witness: question 1 asked for with no embed secret raised RuntimeError
C26_Witness ==
    /\ embed_call.op = "build" /\ embed_call.question_id = 1
    /\ embed_env.METABASE_EMBED_SECRET = None
    /\ embed_env.METABASE_ALLOWED_QUESTION_IDS = None
    /\ embed_call.raised = "RuntimeError"
    /\ embed_call.embed = NoEmbed

\* C28 as stated: after any sequence of successful
\* create_metabase_question_embed calls on one run context, metadata["embeds"]
\* and session_state["metabase_embeds"] each hold at most one
\* metabase_question embed per question id, the most recently created embed
\* is the last element, entries of another kind or another question id that
\* were present keep their relative order, and non-dict items are dropped.
C28_AtMostOnePerQuestionId ==
    (embed_call.op = "tool" /\ embed_call.n >= 1 /\ Len(embed_call.created) = embed_call.n) =>
        LET made == embed_call.created
            ids == {made[k].question_id : k \in 1 .. Len(made)}
            latest == {k \in 1 .. Len(made) :
                          \A k2 \in k + 1 .. Len(made) :
                              made[k2].question_id # made[k].question_id}
            nth(j) == CHOOSE k \in latest : Cardinality({k2 \in latest : k2 < k}) = j - 1
            survives(item) ==
                /\ item.type = "dict"
                /\ \/ item.value.kind # "metabase_question"
                   \/ item.value.question_id \notin ids
            Holds(before, after) ==
                LET l == after.items
                    old == SelectSeq(IF before.type = "list" THEN before.items ELSE << >>,
                                     survives)
                IN  /\ after.type = "list"
                    /\ \A i \in 1 .. Len(l) : l[i].type = "dict"
                    /\ \A i, j \in 1 .. Len(l) :
                          (/\ i < j
                           /\ l[i].value.kind = "metabase_question"
                           /\ l[j].value.kind = "metabase_question") =>
                              l[i].value.question_id # l[j].value.question_id
                    /\ l[Len(l)].value = made[Len(made)]
                    /\ Len(l) = Len(old) + Cardinality(latest)
                    /\ \A i \in 1 .. Len(old) : l[i] = old[i]
                    /\ \A j \in 1 .. Cardinality(latest) :
                          l[Len(old) + j].value = made[nth(j)]
        IN  /\ ~run_context.metadata.is_none /\ ~run_context.session_state.is_none
            /\ Holds(embed_call.initial.metadata.embeds, run_context.metadata.embeds)
            /\ Holds(embed_call.initial.session_state.metabase_embeds,
                     run_context.session_state.metabase_embeds)

\* C28 (amended): after any sequence of successful calls the two lists each
\* hold exactly one metabase_question embed for every question id created in
\* the sequence (entries of a question id that no call created are kept as
\* they were, duplicates included), the most recently created embed is the
\* last element, entries present before of another kind or another question
\* id keep their relative order ahead of the created ones, and non-dict items
\* are dropped.
C28_OnePerCreatedQuestionId ==
    (embed_call.op = "tool" /\ embed_call.n >= 1 /\ Len(embed_call.created) = embed_call.n) =>
        LET made == embed_call.created
            ids == {made[k].question_id : k \in 1 .. Len(made)}
            latest == {k \in 1 .. Len(made) :
                          \A k2 \in k + 1 .. Len(made) :
                              made[k2].question_id # made[k].question_id}
            nth(j) == CHOOSE k \in latest : Cardinality({k2 \in latest : k2 < k}) = j - 1
            survives(item) ==
                /\ item.type = "dict"
                /\ \/ item.value.kind # "metabase_question"
                   \/ item.value.question_id \notin ids
            Holds(before, after) ==
                LET l == after.items
                    old == SelectSeq(IF before.type = "list" THEN before.items ELSE << >>,
                                     survives)
                IN  /\ after.type = "list"
                    /\ \A i \in 1 .. Len(l) : l[i].type = "dict"
                    /\ \A q \in ids :
                          Cardinality({i \in 1 .. Len(l) :
                                          /\ l[i].value.kind = "metabase_question"
                                          /\ l[i].value.question_id = q}) = 1
                    /\ l[Len(l)].value = made[Len(made)]
                    /\ Len(l) = Len(old) + Cardinality(latest)
                    /\ \A i \in 1 .. Len(old) : l[i] = old[i]
                    /\ \A j \in 1 .. Cardinality(latest) :
                          l[Len(old) + j].value = made[nth(j)]
        IN  /\ ~run_context.metadata.is_none /\ ~run_context.session_state.is_none
            /\ Holds(embed_call.initial.metadata.embeds, run_context.metadata.embeds)
            /\ Holds(embed_call.initial.session_state.metabase_embeds,
                     run_context.session_state.metabase_embeds)

\* C28 witness: two embeds of question 1 were created on a context whose
\* metadata held junk, a chart and an older embed of question 1; the chart
\* and the second embed remain
C28_Witness ==
    /\ embed_call.op = "tool" /\ embed_call.n = 2 /\ Len(embed_call.created) = 2
    /\ embed_call.created[1].question_id = 1 /\ embed_call.created[2].question_id = 1
    /\ embed_call.initial.metadata.embeds.type = "list"
    /\ Len(embed_call.initial.metadata.embeds.items) = 2
    /\ embed_call.initial.metadata.embeds.items[1].type = "dict"
    /\ embed_call.initial.metadata.embeds.items[1].value.kind = "chart"
    /\ embed_call.initial.metadata.embeds.items[2].type = "dict"
    /\ embed_call.initial.metadata.embeds.items[2].value.kind = "metabase_question"
    /\ Len(run_context.metadata.embeds.items) = 2
    /\ run_context.metadata.embeds.items[2].value = embed_call.created[2]

\* C29: when create_metabase_question_embed fails to build an embed
\* (non-positive id, id not in the allowlist, invalid configuration) it
\* returns a fixed message that contains neither the exception text nor any
\* signed URL, raises nothing, and leaves run_context.metadata and
\* run_context.session_state unchanged; on success the returned text also
\* never contains the token or the iframe URL.
C29_FailureIsQuiet ==
    [][(embed_call.op = "tool" /\ embed_call'.n = embed_call.n + 1) =>
          LET question_id == embed_call'.question_id
              refused == question_id > 0 /\ question_id \notin {1, 2, 3}
              fails == \/ question_id <= 0
                       \/ refused
                       \/ embed_env.METABASE_EMBED_SECRET = None
              text == embed_call'.returned
          IN  /\ text # << >>
              /\ \A i \in 1 .. Len(text) : text[i].part \in {"literal", "int", "isoformat"}
              /\ fails =>
                    /\ run_context' = run_context
                    /\ embed_call'.created = embed_call.created
                    /\ text = IF refused
                              THEN << [part |-> "literal",
                                       text |-> "Embed not permitted for this question."] >>
                              ELSE << [part |-> "literal",
                                       text |-> "Failed to create Metabase embed metadata."] >>
              /\ ~fails =>
                    LET embed == embed_call'.created[Len(embed_call'.created)]
                    IN  /\ Len(embed_call'.created) = Len(embed_call.created) + 1
                        /\ embed.question_id = question_id
                        /\ \A i \in 1 .. Len(text) :
                              /\ text[i] # embed.iframe_url[3]
                              /\ text[i].part = "literal" =>
                                    text[i].text \notin {embed.iframe_url[2], embed.iframe_url[4]}
                              /\ text[i].part = "int" => text[i].n = question_id
                              /\ text[i].part = "isoformat" =>
                                    text[i].timestamp = embed.expires_at]_vars

\* C29 witness: question 42, outside the allowlist, was refused with the
\* fixed message on a context that held a list, which is left as it was
C29_Witness ==
    /\ embed_call.op = "tool" /\ embed_call.n = 1 /\ embed_call.question_id = 42
    /\ embed_call.returned = NOT_PERMITTED_MESSAGE
    /\ run_context = embed_call.initial
    /\ run_context.metadata.embeds.type = "list"
    /\ Len(run_context.metadata.embeds.items) = 2

\* C30: on the embed-refresh endpoint, when OS_SECURITY_KEY is configured no
\* embed is ever signed for a request that lacks a bearer token equal to the
\* key: the authorization check runs before the configuration check and
\* before signing, answering 401 for a missing bearer header and 403 for a
\* wrong token; when the key is not configured the request is served without
\* authorization.
C30_RefreshRequiresBearer ==
    (http.op = "refresh" /\ http.question_id > 0) =>
        LET key == IF embed_env.OS_SECURITY_KEY = None THEN << >>
                   ELSE Strip(embed_env.OS_SECURITY_KEY)
            header == http.authorization
            bearer == Len(header) >= 7 /\ SubSeq(header, 1, 7) = BEARER_PREFIX
            token == IF bearer THEN Strip(SubSeq(header, 8, Len(header))) ELSE << >>
            checks == {http.steps[i] : i \in 1 .. Len(http.steps)}
        IN  /\ (key # << >> /\ ~bearer) =>
                  /\ http.status = 401
                  /\ http.embed = NoEmbed
                  /\ checks \cap {"configured", "build"} = {}
            /\ (key # << >> /\ bearer /\ token # key) =>
                  /\ http.status = 403
                  /\ http.embed = NoEmbed
                  /\ checks \cap {"configured", "build"} = {}
            /\ (key # << >> /\ bearer /\ token = key) => "configured" \in checks
            /\ key = << >> => "configured" \in checks /\ http.status # 401

====
